---- MODULE Spec2Model ----
(***************************************************************************)
(* Hierarchical concurrent registry of option order books:                 *)
(*   UnderlyingOrderBookManager -> UnderlyingOrderBook                     *)
(*     -> ExpirationOrderBookManager -> ExpirationOrderBook                *)
(*       -> OptionChainOrderBook -> StrikeOrderBookManager                 *)
(*         -> StrikeOrderBook -> call / put leaf.                          *)
(* Every manager keeps a crossbeam SkipMap of Arc values.  An Arc is       *)
(* modelled as the index of the object in a heap (uBooks, eBooks, sBooks); *)
(* a heap object lives as long as somebody may hold a handle to it, so     *)
(* the heaps only grow.                                                    *)
(***************************************************************************)
EXTENDS Integers, Sequences, FiniteSets, TLC

\* ---------------------------------------------------------------- bounds
\* MaxObjects bounds the number of objects ever constructed, over the three heaps.
MaxObjects == 4
\* MaxOrders bounds the number of orders ever placed.
MaxOrders == 1
\* Strikes and spot prices are u64 in the source; the model keeps the arithmetic
\* of a StrikeBits-bit unsigned integer and of its signed twin.
StrikeBits == 3
\* MaxAtmStrikes bounds the number of strikes of the managers atm_strike is applied to.
MaxAtmStrikes == 3
\* MaxLoad bounds the orders resting in a leaf before the aggregates are read.
MaxLoad == 2

\* ------------------------------------------------------------------ keys
\* Symbols are opaque ordered strings; 1 < 2 stands for "BTC" < "ETH".
Symbols == {1, 2, 3}
Expirations == {1}
Strikes == {1, 2}
\* The keys the concurrent callers of Spec contend for.
RaceSymbols == {1}
RaceExpirations == {1}
RaceStrikes == {1, 2}
Threads == {1, 2}

LvlUnderlying == 0
LvlExpiration == 1
LvlStrike == 2

VARIABLES
    underlyings,   \* UnderlyingOrderBookManager.underlyings : SkipMap<String, Arc<UnderlyingOrderBook>>
    uBooks,        \* heap of UnderlyingOrderBook objects
    eBooks,        \* heap of ExpirationOrderBook objects (with their chain and strike manager)
    sBooks,        \* heap of StrikeOrderBook objects
    pc,            \* per thread: "idle", "insert" between the lookup and the insert of get_or_create,
                   \* "scan" inside an iteration or between the reads of stats, "done" on return
    arg,           \* per thread: the call in progress or just completed: operation, level, manager, key
    ret,           \* per thread: the value the completed call returned
    placed,        \* history: number of orders placed so far
    overflowChecks, \* the build profile: TRUE when integer overflow panics (debug), FALSE when it wraps (release)
    scan           \* per thread: the iteration it is in the middle of: cursor, the last key the iterator
                   \* yielded; acc, what the call gathered; and history: always / ever, the keys seen
                   \* registered at every / at some step of the call; start / end, the counts of the
                   \* tree when the call began / returned

vars == <<underlyings, uBooks, eBooks, sBooks, pc, arg, ret, placed, overflowChecks, scan>>

\* ------------------------------------------------------------- SkipMap
\* A SkipMap is the ascending sequence of its live entries.
Entry(k, v) == [key |-> k, value |-> v]

Nil == 0

SkipIndexOf(m, k) ==
    IF \E i \in DOMAIN m : m[i].key = k
    THEN CHOOSE i \in DOMAIN m : m[i].key = k /\ \A j \in DOMAIN m : m[j].key = k => i <= j
    ELSE 0

\* SkipMap::get : the value of the entry with the key, or Nil.
SkipGet(m, k) == IF SkipIndexOf(m, k) = 0 THEN Nil ELSE m[SkipIndexOf(m, k)].value

\* SkipMap::contains_key
SkipContainsKey(m, k) == \E i \in DOMAIN m : m[i].key = k

\* A remove that drops the last entry of the map when the key is present.
SkipRemoveTail(m, k) ==
    IF SkipIndexOf(m, k) = 0 THEN m ELSE SubSeq(m, 1, Len(m) - 1)

\* SkipMap::remove : unlinks the entry with the key, if any.
SkipRemove(m, k) ==
    LET i == SkipIndexOf(m, k)
    IN IF i = 0 THEN m ELSE SubSeq(m, 1, i - 1) \o SubSeq(m, i + 1, Len(m))

\* A SkipMap::insert that links the new entry without removing an existing one.
SkipInsertNoReplace(m, k, v) ==
    LET below == SelectSeq(m, LAMBDA e : e.key <= k)
        above == SelectSeq(m, LAMBDA e : e.key > k)
    IN below \o <<[key |-> k, value |-> v]>> \o above

\* An insert that appends at the end instead of keeping the key order.
SkipInsertAppend(m, k, v) == Append(SkipRemove(m, k), Entry(k, v))

\* An insert that links the new entry after the entries below it and loses the
\* entries above it.
SkipInsertTruncating(m, k, v) ==
    SelectSeq(m, LAMBDA e : e.key < k) \o <<Entry(k, v)>>

\* SkipMap::insert : an existing entry with the key is removed first, then the
\* new entry is linked at its place in key order.
SkipInsert(m, k, v) ==
    LET rest == SkipRemove(m, k)
        below == SelectSeq(rest, LAMBDA e : e.key < k)
        above == SelectSeq(rest, LAMBDA e : e.key > k)
    IN below \o <<Entry(k, v)>> \o above

\* SkipMap::len
SkipLen(m) == Len(m)

\* SkipMap::iter().map(|e| *e.key()).collect()
SkipKeys(m) == [i \in DOMAIN m |-> m[i].key]

\* ----------------------------------------------------------- objects
\* A leaf order book holds resting orders; only their number per side matters here.
EmptyLeaf == [bids |-> 0, asks |-> 0]

\* Every object carries two history fields next to the fields of the struct:
\* owner, the manager that constructed it (0 for the root manager, else the
\* index of the object owning the manager), and unlinked, set once a remove
\* call has taken the object out of its map.

\* StrikeOrderBook::new
NewStrikeOrderBook(u, e, k, mgr) ==
    [underlying |-> u, expiration |-> e, strike |-> k,
     call |-> EmptyLeaf, put |-> EmptyLeaf,
     call_greeks |-> Nil, put_greeks |-> Nil,
     owner |-> mgr, unlinked |-> FALSE]

\* ExpirationOrderBook::new (with OptionChainOrderBook::new and
\* StrikeOrderBookManager::new, which it calls): the strike map starts empty.
NewExpirationOrderBook(u, e, mgr) ==
    [underlying |-> u, expiration |-> e, strikes |-> <<>>,
     owner |-> mgr, unlinked |-> FALSE]

\* UnderlyingOrderBook::new (with ExpirationOrderBookManager::new).
NewUnderlyingOrderBook(u, mgr) ==
    [underlying |-> u, expirations |-> <<>>,
     owner |-> mgr, unlinked |-> FALSE]

\* The managers of a level: the root manager is manager 0, an expiration manager is
\* named by the UnderlyingOrderBook that owns it, a strike manager by the
\* ExpirationOrderBook that owns it.
Managers(lvl) ==
    IF lvl = LvlUnderlying THEN {0}
    ELSE IF lvl = LvlExpiration THEN DOMAIN uBooks
    ELSE DOMAIN eBooks

\* The map of manager mgr of level lvl.
MapOf(lvl, mgr) ==
    IF lvl = LvlUnderlying THEN underlyings
    ELSE IF lvl = LvlExpiration THEN uBooks[mgr].expirations
    ELSE eBooks[mgr].strikes

\* The heap holding the values of the maps of level lvl.
HeapOf(lvl) ==
    IF lvl = LvlUnderlying THEN uBooks
    ELSE IF lvl = LvlExpiration THEN eBooks
    ELSE sBooks

\* The key an object of level lvl was constructed for.
KeyOfObject(lvl, id) ==
    IF lvl = LvlUnderlying THEN uBooks[id].underlying
    ELSE IF lvl = LvlExpiration THEN eBooks[id].expiration
    ELSE sBooks[id].strike

NoCall == [op |-> "none", lvl |-> 0, mgr |-> 0, key |-> 0]
\* A returned value: op is the call, ok tells Ok from Err; an Ok carries a handle, a
\* count or a strike in val, a bool in flag, a Vec (or the fields of a stats
\* struct) in list; an Err carries its kind in err and the offending key in val.
Ret(op, lvl, ok, val, flag, err, list) ==
    [op |-> op, lvl |-> lvl, ok |-> ok, val |-> val, flag |-> flag, err |-> err, list |-> list]
NoRet == Ret("none", 0, TRUE, 0, FALSE, "", <<>>)
Handle(op, lvl, id) == Ret(op, lvl, TRUE, id, FALSE, "", <<>>)
Bool(op, lvl, b) == Ret(op, lvl, TRUE, 0, b, "", <<>>)
Count(op, lvl, n) == Ret(op, lvl, TRUE, n, FALSE, "", <<>>)
List(op, lvl, l) == Ret(op, lvl, TRUE, 0, FALSE, "", l)
Err(op, lvl, kind, k) == Ret(op, lvl, FALSE, k, FALSE, kind, <<>>)

\* No iteration in progress.
NoScan == [cursor |-> Nil, acc |-> <<>>, always |-> {}, ever |-> {}, start |-> <<>>, end |-> <<>>]

Init ==
    /\ underlyings = <<>>
    /\ uBooks = <<>>
    /\ eBooks = <<>>
    /\ sBooks = <<>>
    /\ pc = [t \in Threads |-> "idle"]
    /\ arg = [t \in Threads |-> NoCall]
    /\ ret = [t \in Threads |-> NoRet]
    /\ placed = 0
    /\ overflowChecks = FALSE
    /\ scan = [t \in Threads |-> NoScan]

\* ------------------------------------------------------ heap updates
\* Constructors in flight: get_or_create calls that found no entry and have not
\* inserted yet.  Each of them will allocate one object.
Pending == {t \in Threads : pc[t] = "insert"}

Allocated == Len(uBooks) + Len(eBooks) + Len(sBooks)

\* A constructor call that passes the first key of the level instead of the
\* requested one.
ConstructFirstKey(lvl, mgr, k) ==
    IF lvl = LvlUnderlying THEN NewUnderlyingOrderBook(1, mgr)
    ELSE IF lvl = LvlExpiration THEN NewExpirationOrderBook(uBooks[mgr].underlying, 1, mgr)
    ELSE NewStrikeOrderBook(eBooks[mgr].underlying, eBooks[mgr].expiration, 1, mgr)

\* The object a manager constructs for key k: the manager passes its own
\* underlying (and expiration) to the constructor.
Construct(lvl, mgr, k) ==
    IF lvl = LvlUnderlying THEN NewUnderlyingOrderBook(k, mgr)
    ELSE IF lvl = LvlExpiration THEN NewExpirationOrderBook(uBooks[mgr].underlying, k, mgr)
    ELSE NewStrikeOrderBook(eBooks[mgr].underlying, eBooks[mgr].expiration, k, mgr)

\* The map of manager mgr at level lvl becomes m and the heap of the level's
\* values becomes h.
Store(lvl, mgr, m, h) ==
    IF lvl = LvlUnderlying THEN
        /\ underlyings' = m
        /\ uBooks' = h
        /\ UNCHANGED <<eBooks, sBooks>>
    ELSE IF lvl = LvlExpiration THEN
        /\ uBooks' = [uBooks EXCEPT ![mgr].expirations = m]
        /\ eBooks' = h
        /\ UNCHANGED <<underlyings, sBooks>>
    ELSE
        /\ eBooks' = [eBooks EXCEPT ![mgr].strikes = m]
        /\ sBooks' = h
        /\ UNCHANGED <<underlyings, uBooks>>

\* ------------------------------------------------------ calls
\* Thread t calls operation op on manager mgr of level lvl with argument k: its
\* next call, or the call that has just returned once more.
Call(t, op, lvl, mgr, k) ==
    /\ \/ pc[t] = "idle"
       \/ pc[t] = "done" /\ arg[t] = [op |-> op, lvl |-> lvl, mgr |-> mgr, key |-> k]
    /\ arg' = [arg EXCEPT ![t] = [op |-> op, lvl |-> lvl, mgr |-> mgr, key |-> k]]

\* The call of thread t returns r.
Return(t, r) ==
    /\ pc' = [pc EXCEPT ![t] = "done"]
    /\ ret' = [ret EXCEPT ![t] = r]

\* The caller takes the returned value and is ready for its next call.
Continue(t) ==
    /\ pc[t] = "done"
    /\ pc' = [pc EXCEPT ![t] = "idle"]
    /\ arg' = [arg EXCEPT ![t] = NoCall]
    /\ ret' = [ret EXCEPT ![t] = NoRet]
    /\ UNCHANGED <<underlyings, uBooks, eBooks, sBooks, placed, overflowChecks, scan>>

\* ------------------------------------------------------ get_or_create
\* A get_or_create that skips the lookup and always constructs and inserts.
GetOrCreateAlways(t, lvl, mgr, k) ==
    /\ mgr \in Managers(lvl)
    /\ Call(t, "get_or_create", lvl, mgr, k)
    /\ Allocated + Cardinality(Pending) < MaxObjects
    /\ pc' = [pc EXCEPT ![t] = "insert"]
    /\ UNCHANGED <<ret, underlyings, uBooks, eBooks, sBooks, placed, overflowChecks, scan>>

\* A get_or_create that fails like get when the key is absent.
GetOrCreateStrict(t, lvl, mgr, k) ==
    /\ mgr \in Managers(lvl)
    /\ Call(t, "get_or_create", lvl, mgr, k)
    /\ IF SkipGet(MapOf(lvl, mgr), k) # Nil
       THEN Return(t, Handle("get_or_create", lvl, SkipGet(MapOf(lvl, mgr), k)))
       ELSE Return(t, Err("get_or_create", lvl, "NotFound", k))
    /\ UNCHANGED <<underlyings, uBooks, eBooks, sBooks, placed, overflowChecks, scan>>

\* First half of get_or_create: `if let Some(entry) = map.get(&k) { return
\* Arc::clone(entry.value()) }`.  When the key is absent the call goes on to
\* construct and insert, which is a separate step: other threads run in between.
GetOrCreateLookup(t, lvl, mgr, k) ==
    /\ mgr \in Managers(lvl)
    /\ Call(t, "get_or_create", lvl, mgr, k)
    /\ IF SkipGet(MapOf(lvl, mgr), k) # Nil
       THEN Return(t, Handle("get_or_create", lvl, SkipGet(MapOf(lvl, mgr), k)))
       ELSE /\ Allocated + Cardinality(Pending) < MaxObjects
            /\ pc' = [pc EXCEPT ![t] = "insert"]
            /\ UNCHANGED ret
    /\ UNCHANGED <<underlyings, uBooks, eBooks, sBooks, placed, overflowChecks, scan>>

\* A get_or_create that returns the instance it constructed without inserting it.
GetOrCreateNoInsert(t) ==
    /\ pc[t] = "insert"
    /\ LET lvl == arg[t].lvl
           mgr == arg[t].mgr
           k == arg[t].key
           id == Len(HeapOf(lvl)) + 1
       IN /\ Store(lvl, mgr, MapOf(lvl, mgr), Append(HeapOf(lvl), Construct(lvl, mgr, k)))
          /\ Return(t, Handle("get_or_create", lvl, id))
    /\ UNCHANGED <<arg, placed, overflowChecks, scan>>

\* An insert that waits while another thread is inside an iteration, as under a
\* lock shared with the readers.
GetOrCreateInsertLocked(t) ==
    /\ pc[t] = "insert"
    /\ \A u \in Threads : pc[u] # "scan"
    /\ LET lvl == arg[t].lvl
           mgr == arg[t].mgr
           k == arg[t].key
           id == Len(HeapOf(lvl)) + 1
       IN /\ Store(lvl, mgr, SkipInsert(MapOf(lvl, mgr), k, id),
                   Append(HeapOf(lvl), Construct(lvl, mgr, k)))
          /\ Return(t, Handle("get_or_create", lvl, id))
    /\ UNCHANGED <<arg, placed, overflowChecks, scan>>

\* A get_or_create that, when an instance constructed earlier for the key exists,
\* registers that instance again instead of constructing a new one.
GetOrCreateReviving(t) ==
    /\ pc[t] = "insert"
    /\ LET lvl == arg[t].lvl
           mgr == arg[t].mgr
           k == arg[t].key
           old == {x \in DOMAIN HeapOf(lvl) :
                      HeapOf(lvl)[x].owner = mgr /\ KeyOfObject(lvl, x) = k}
           id == IF old = {} THEN Len(HeapOf(lvl)) + 1 ELSE CHOOSE x \in old : TRUE
       IN /\ Store(lvl, mgr, SkipInsert(MapOf(lvl, mgr), k, id),
                   IF old = {} THEN Append(HeapOf(lvl), Construct(lvl, mgr, k))
                   ELSE [HeapOf(lvl) EXCEPT ![id].unlinked = FALSE])
          /\ Return(t, Handle("get_or_create", lvl, id))
    /\ UNCHANGED <<arg, placed, overflowChecks, scan>>

\* Second half of get_or_create: `let book = Arc::new(...::new(..)); map.insert(k,
\* Arc::clone(&book)); book`.
GetOrCreateInsert(t) ==
    /\ pc[t] = "insert"
    /\ LET lvl == arg[t].lvl
           mgr == arg[t].mgr
           k == arg[t].key
           id == Len(HeapOf(lvl)) + 1
       IN /\ Store(lvl, mgr, SkipInsert(MapOf(lvl, mgr), k, id),
                   Append(HeapOf(lvl), Construct(lvl, mgr, k)))
          /\ Return(t, Handle("get_or_create", lvl, id))
    /\ UNCHANGED <<arg, placed, overflowChecks, scan>>

\* ------------------------------------------------------------ remove
\* The heap after the map entry holding object id (Nil: none) was removed: the Arc
\* taken out of the map is dropped, the object stays for the callers that hold a
\* handle to it.
Unlink(h, id) == IF id = Nil THEN h ELSE [h EXCEPT ![id].unlinked = TRUE]

\* A remove that also clears the leaves of the StrikeOrderBook it takes out.
RemoveClearing(t, lvl, mgr, k) ==
    /\ mgr \in Managers(lvl)
    /\ Call(t, "remove", lvl, mgr, k)
    /\ Return(t, Bool("remove", lvl, SkipGet(MapOf(lvl, mgr), k) # Nil))
    /\ LET id == SkipGet(MapOf(lvl, mgr), k)
           h == Unlink(HeapOf(lvl), id)
       IN Store(lvl, mgr, SkipRemove(MapOf(lvl, mgr), k),
                IF lvl = LvlStrike /\ id # Nil
                THEN [h EXCEPT ![id].call = EmptyLeaf, ![id].put = EmptyLeaf]
                ELSE h)
    /\ UNCHANGED <<placed, overflowChecks, scan>>

\* A remove that reports whether the key was ever registered in the manager,
\* not whether this call took an entry out.
RemoveStale(t, lvl, mgr, k) ==
    /\ mgr \in Managers(lvl)
    /\ Call(t, "remove", lvl, mgr, k)
    /\ Return(t, Bool("remove", lvl,
              \E x \in DOMAIN HeapOf(lvl) :
                  HeapOf(lvl)[x].owner = mgr /\ KeyOfObject(lvl, x) = k))
    /\ Store(lvl, mgr, SkipRemove(MapOf(lvl, mgr), k),
             Unlink(HeapOf(lvl), SkipGet(MapOf(lvl, mgr), k)))
    /\ UNCHANGED <<placed, overflowChecks, scan>>

\* `map.remove(&k).is_some()`
Remove(t, lvl, mgr, k) ==
    /\ mgr \in Managers(lvl)
    /\ Call(t, "remove", lvl, mgr, k)
    /\ Return(t, Bool("remove", lvl, SkipGet(MapOf(lvl, mgr), k) # Nil))
    /\ Store(lvl, mgr, SkipRemove(MapOf(lvl, mgr), k),
             Unlink(HeapOf(lvl), SkipGet(MapOf(lvl, mgr), k)))
    /\ UNCHANGED <<placed, overflowChecks, scan>>

\* ------------------------------------------------------------ leaves
\* The leaf with one more resting order on the given side.
LeafAdd(leaf, side) ==
    IF side = "buy" THEN [leaf EXCEPT !.bids = @ + 1] ELSE [leaf EXCEPT !.asks = @ + 1]

\* strike.call().add_limit_order(..) / strike.put().add_limit_order(..) through a
\* handle to StrikeOrderBook s, for an order that rests in the book.
AddLimitOrder(t, s, style, side) ==
    /\ pc[t] = "idle"
    /\ s \in DOMAIN sBooks
    /\ placed < MaxOrders
    /\ sBooks' = [sBooks EXCEPT ![s] =
            IF style = "call" THEN [@ EXCEPT !.call = LeafAdd(@, side)]
            ELSE [@ EXCEPT !.put = LeafAdd(@, side)]]
    /\ placed' = placed + 1
    /\ UNCHANGED <<underlyings, uBooks, eBooks, pc, arg, ret, overflowChecks, scan>>

\* add_limit_order on the call or put leaf through the handle that the caller's
\* get_or_create_strike has just returned, for an order that rests in the book.
AddLimitOrderThroughHandle(t, style, side) ==
    /\ pc[t] = "done"
    /\ arg[t].op = "get_or_create" /\ arg[t].lvl = LvlStrike
    /\ placed < MaxOrders
    /\ sBooks' = [sBooks EXCEPT ![ret[t].val] =
            IF style = "call" THEN [@ EXCEPT !.call = LeafAdd(@, side)]
            ELSE [@ EXCEPT !.put = LeafAdd(@, side)]]
    /\ placed' = placed + 1
    /\ UNCHANGED <<underlyings, uBooks, eBooks, pc, arg, ret, overflowChecks, scan>>

\* ------------------------------------------------------ read operations
\* A not-found constructor that is the strike level's at every level.
NotFoundKindStrike(lvl) == "StrikeNotFound"

NotFoundKind(lvl) ==
    IF lvl = LvlUnderlying THEN "UnderlyingNotFound"
    ELSE IF lvl = LvlExpiration THEN "ExpirationNotFound"
    ELSE "StrikeNotFound"

RECURSIVE SumSeq(_)
SumSeq(q) == IF q = <<>> THEN 0 ELSE Head(q) + SumSeq(Tail(q))

\* OptionOrderBook::order_count of a leaf.
LeafOrderCount(leaf) == leaf.bids + leaf.asks

\* An order_count that leaves out the put leaf.
OrderCountCallOnly(s) == LeafOrderCount(sBooks[s].call)

\* StrikeOrderBook::order_count
OrderCount(s) == LeafOrderCount(sBooks[s].call) + LeafOrderCount(sBooks[s].put)

\* A total_order_count that stops after the first entry of the map.
StrikeTotalOrderCountFirst(e) ==
    IF eBooks[e].strikes = <<>> THEN 0 ELSE OrderCount(eBooks[e].strikes[1].value)

\* StrikeOrderBookManager::total_order_count of the strike manager of ExpirationOrderBook e
\* (also OptionChainOrderBook::total_order_count and ExpirationOrderBook::total_order_count).
StrikeTotalOrderCount(e) ==
    SumSeq([i \in DOMAIN eBooks[e].strikes |-> OrderCount(eBooks[e].strikes[i].value)])

\* ExpirationOrderBook::strike_count
StrikeCount(e) == SkipLen(eBooks[e].strikes)

\* ExpirationOrderBookManager::total_order_count of the manager of UnderlyingOrderBook u.
ExpirationTotalOrderCount(u) ==
    SumSeq([i \in DOMAIN uBooks[u].expirations |->
                StrikeTotalOrderCount(uBooks[u].expirations[i].value)])

\* A total_strike_count over every strike ever constructed below underlying u,
\* registered or not.
ExpirationTotalStrikeCountEver(u) ==
    Cardinality({x \in DOMAIN sBooks : eBooks[sBooks[x].owner].owner = u})

\* ExpirationOrderBookManager::total_strike_count
ExpirationTotalStrikeCount(u) ==
    SumSeq([i \in DOMAIN uBooks[u].expirations |-> StrikeCount(uBooks[u].expirations[i].value)])

\* ExpirationOrderBookManager::stats / UnderlyingOrderBook::stats :
\* {underlying, expiration_count, total_strikes, total_orders}
ExpirationManagerStats(u) ==
    <<uBooks[u].underlying, SkipLen(uBooks[u].expirations),
      ExpirationTotalStrikeCount(u), ExpirationTotalOrderCount(u)>>

\* UnderlyingOrderBookManager::total_order_count
UnderlyingTotalOrderCount ==
    SumSeq([i \in DOMAIN underlyings |-> ExpirationTotalOrderCount(underlyings[i].value)])

\* UnderlyingOrderBookManager::total_expiration_count
UnderlyingTotalExpirationCount ==
    SumSeq([i \in DOMAIN underlyings |-> SkipLen(uBooks[underlyings[i].value].expirations)])

\* UnderlyingOrderBookManager::total_strike_count
UnderlyingTotalStrikeCount ==
    SumSeq([i \in DOMAIN underlyings |-> ExpirationTotalStrikeCount(underlyings[i].value)])

\* UnderlyingOrderBookManager::stats :
\* {underlying_count, total_expirations, total_strikes, total_orders}
GlobalStats ==
    <<SkipLen(underlyings), UnderlyingTotalExpirationCount,
      UnderlyingTotalStrikeCount, UnderlyingTotalOrderCount>>

\* ---- atm_strike: min_by_key(|&k| (k as i64 - spot as i64).unsigned_abs())
Modulus == 2 ^ StrikeBits
HalfModulus == 2 ^ (StrikeBits - 1)
\* The values of the unsigned type of strikes and spot prices.
StrikeRange == 0 .. (Modulus - 1)

\* `x as i64`: the same bits read as a signed integer.
AsSigned(x) == IF x >= HalfModulus THEN x - Modulus ELSE x

\* The signed subtraction overflows when the difference leaves the signed range.
SubOverflows(a, b) == (a - b) < -HalfModulus \/ (a - b) > HalfModulus - 1

\* Signed subtraction where overflow wraps.
WrappingSub(a, b) == (((a - b) + HalfModulus) % Modulus) - HalfModulus

\* i64::unsigned_abs
UnsignedAbs(z) == IF z < 0 THEN -z ELSE z

\* The key atm_strike minimizes for strike k.
AtmKey(k, spot) == UnsignedAbs(WrappingSub(AsSigned(k), AsSigned(spot)))

\* Iterator::min_by_key over the key listing q: the first of the minimal elements.
MinByAtmKey(q, spot) ==
    LET best == CHOOSE i \in DOMAIN q :
                    /\ \A j \in DOMAIN q : AtmKey(q[i], spot) <= AtmKey(q[j], spot)
                    /\ \A j \in DOMAIN q : AtmKey(q[j], spot) = AtmKey(q[i], spot) => i <= j
    IN q[best]

\* StrikeOrderBookManager::atm_strike on the map m.
AtmStrikeResult(m, spot) ==
    IF SkipKeys(m) = <<>> THEN Err("atm_strike", LvlStrike, "NoDataAvailable", 0)
    ELSE IF overflowChecks /\ \E i \in DOMAIN m : SubOverflows(AsSigned(m[i].key), AsSigned(spot))
    THEN Err("atm_strike", LvlStrike, "panic", 0)
    ELSE Count("atm_strike", LvlStrike, MinByAtmKey(SkipKeys(m), spot))

\* A read that registers the key it did not find.
ReadsCreating(t, op, lvl, mgr, k, r) ==
    /\ Call(t, op, lvl, mgr, k)
    /\ Return(t, r)
    /\ IF op = "get" /\ ~r.ok /\ Allocated < MaxObjects
       THEN Store(lvl, mgr, SkipInsert(MapOf(lvl, mgr), k, Len(HeapOf(lvl)) + 1),
                  Append(HeapOf(lvl), Construct(lvl, mgr, k)))
       ELSE UNCHANGED <<underlyings, uBooks, eBooks, sBooks>>
    /\ UNCHANGED <<placed, overflowChecks, scan>>

\* A read operation returns r to thread t and changes nothing else.
Reads(t, op, lvl, mgr, k, r) ==
    /\ Call(t, op, lvl, mgr, k)
    /\ Return(t, r)
    /\ UNCHANGED <<underlyings, uBooks, eBooks, sBooks, placed, overflowChecks, scan>>

\* ExpirationDate::to_string: the text an expiration is rendered as.
ExpirationToString(k) == <<"to_string", k>>

\* What the not-found constructors are given: the strike, the symbol, or the
\* expiration rendered as text (`Error::expiration_not_found(expiration.to_string())`).
ErrorKey(lvl, k) == IF lvl = LvlExpiration THEN ExpirationToString(k) ELSE k

\* A get that falls back to the first entry of the map when the key is absent.
GetResultLenient(lvl, m, k) ==
    IF SkipGet(m, k) # Nil THEN Handle("get", lvl, SkipGet(m, k))
    ELSE IF m # <<>> THEN Handle("get", lvl, m[1].value)
    ELSE Err("get", lvl, NotFoundKind(lvl), ErrorKey(lvl, k))

\* get : `map.get(&k).map(|e| Arc::clone(e.value())).ok_or_else(|| Error::.._not_found(k))`
GetResult(lvl, m, k) ==
    IF SkipGet(m, k) # Nil THEN Handle("get", lvl, SkipGet(m, k))
    ELSE Err("get", lvl, NotFoundKind(lvl), ErrorKey(lvl, k))

Get(t, lvl, mgr, k) ==
    /\ mgr \in Managers(lvl)
    /\ Reads(t, "get", lvl, mgr, k, GetResult(lvl, MapOf(lvl, mgr), k))

\* contains : `map.contains_key(&k)`
Contains(t, lvl, mgr, k) ==
    /\ mgr \in Managers(lvl)
    /\ Reads(t, "contains", lvl, mgr, k, Bool("contains", lvl, SkipContainsKey(MapOf(lvl, mgr), k)))

\* len / strike_count / expiration_count : `map.len()`
LenOf(t, lvl, mgr) ==
    /\ mgr \in Managers(lvl)
    /\ Reads(t, "len", lvl, mgr, 0, Count("len", lvl, SkipLen(MapOf(lvl, mgr))))

\* is_empty : `map.is_empty()`
IsEmpty(t, lvl, mgr) ==
    /\ mgr \in Managers(lvl)
    /\ Reads(t, "is_empty", lvl, mgr, 0, Bool("is_empty", lvl, SkipLen(MapOf(lvl, mgr)) = 0))

\* strike_prices
StrikePrices(t, e) ==
    /\ e \in DOMAIN eBooks
    /\ Reads(t, "strike_prices", LvlStrike, e, 0,
             List("strike_prices", LvlStrike, SkipKeys(eBooks[e].strikes)))

\* underlying_symbols
UnderlyingSymbols(t) ==
    Reads(t, "underlying_symbols", LvlUnderlying, 0, 0,
          List("underlying_symbols", LvlUnderlying, SkipKeys(underlyings)))

\* atm_strike
AtmStrike(t, e, spot) ==
    /\ e \in DOMAIN eBooks
    /\ Reads(t, "atm_strike", LvlStrike, e, spot, AtmStrikeResult(eBooks[e].strikes, spot))

\* total_order_count at the three levels
TotalOrderCount(t, lvl, mgr) ==
    /\ mgr \in Managers(lvl)
    /\ Reads(t, "total_order_count", lvl, mgr, 0,
             Count("total_order_count", lvl,
                   IF lvl = LvlUnderlying THEN UnderlyingTotalOrderCount
                   ELSE IF lvl = LvlExpiration THEN ExpirationTotalOrderCount(mgr)
                   ELSE StrikeTotalOrderCount(mgr)))

\* total_strike_count of an expiration manager and of the root manager
TotalStrikeCount(t, lvl, mgr) ==
    /\ lvl \in {LvlUnderlying, LvlExpiration}
    /\ mgr \in Managers(lvl)
    /\ Reads(t, "total_strike_count", lvl, mgr, 0,
             Count("total_strike_count", lvl,
                   IF lvl = LvlUnderlying THEN UnderlyingTotalStrikeCount
                   ELSE ExpirationTotalStrikeCount(mgr)))

\* total_expiration_count of the root manager
TotalExpirationCount(t) ==
    Reads(t, "total_expiration_count", LvlUnderlying, 0, 0,
          Count("total_expiration_count", LvlUnderlying, UnderlyingTotalExpirationCount))

\* OptionChainOrderBook::stats : {expiration, strike_count, total_orders}
OptionChainStats(e) == <<eBooks[e].expiration, StrikeCount(e), StrikeTotalOrderCount(e)>>

\* stats of the root manager, of an underlying (its expiration manager) and of a chain
Stats(t, lvl, mgr) ==
    /\ mgr \in Managers(lvl)
    /\ Reads(t, "stats", lvl, mgr, 0,
             List("stats", lvl,
                  IF lvl = LvlUnderlying THEN GlobalStats
                  ELSE IF lvl = LvlExpiration THEN ExpirationManagerStats(mgr)
                  ELSE OptionChainStats(mgr)))

\* ------------------------------------------- StrikeOrderBook operations
\* Quote::is_two_sided of the leaf's best_quote: a bid and an ask are present.
IsTwoSided(leaf) == leaf.bids > 0 /\ leaf.asks > 0

\* OptionOrderBook::is_empty
LeafIsEmpty(leaf) == leaf.bids = 0 /\ leaf.asks = 0

\* An is_fully_quoted that is content with one two-sided leaf.
IsFullyQuotedEither(s) == IsTwoSided(sBooks[s].call) \/ IsTwoSided(sBooks[s].put)

\* StrikeOrderBook::is_fully_quoted
IsFullyQuoted(s) == IsTwoSided(sBooks[s].call) /\ IsTwoSided(sBooks[s].put)

\* StrikeOrderBook::is_empty
BookIsEmpty(s) == LeafIsEmpty(sBooks[s].call) /\ LeafIsEmpty(sBooks[s].put)

\* The value of a call that returns ().
Unit(op, lvl) == Ret(op, lvl, TRUE, 0, FALSE, "", <<>>)

\* The calls below are made through a handle to StrikeOrderBook s, which arg
\* names in its mgr field.
ReadIsFullyQuoted(t, s) ==
    /\ s \in DOMAIN sBooks
    /\ Reads(t, "is_fully_quoted", LvlStrike, s, 0, Bool("is_fully_quoted", LvlStrike, IsFullyQuoted(s)))

ReadOrderCount(t, s) ==
    /\ s \in DOMAIN sBooks
    /\ Reads(t, "order_count", LvlStrike, s, 0, Count("order_count", LvlStrike, OrderCount(s)))

ReadBookIsEmpty(t, s) ==
    /\ s \in DOMAIN sBooks
    /\ Reads(t, "book_is_empty", LvlStrike, s, 0, Bool("book_is_empty", LvlStrike, BookIsEmpty(s)))

\* A clear that clears the leaves of every StrikeOrderBook of the same strike
\* price, whatever expiration it belongs to.
ClearSameStrike(t, s) ==
    /\ s \in DOMAIN sBooks
    /\ Call(t, "clear", LvlStrike, s, 0)
    /\ Return(t, Unit("clear", LvlStrike))
    /\ sBooks' = [x \in DOMAIN sBooks |->
                     IF sBooks[x].strike = sBooks[s].strike
                     THEN [sBooks[x] EXCEPT !.call = EmptyLeaf, !.put = EmptyLeaf]
                     ELSE sBooks[x]]
    /\ UNCHANGED <<underlyings, uBooks, eBooks, placed, overflowChecks, scan>>

\* A clear that clears the call leaf only.
ClearCallOnly(t, s) ==
    /\ s \in DOMAIN sBooks
    /\ Call(t, "clear", LvlStrike, s, 0)
    /\ Return(t, Unit("clear", LvlStrike))
    /\ sBooks' = [sBooks EXCEPT ![s].call = EmptyLeaf]
    /\ UNCHANGED <<underlyings, uBooks, eBooks, placed, overflowChecks, scan>>

\* StrikeOrderBook::clear : `self.call.clear(); self.put.clear();`
Clear(t, s) ==
    /\ s \in DOMAIN sBooks
    /\ Call(t, "clear", LvlStrike, s, 0)
    /\ Return(t, Unit("clear", LvlStrike))
    /\ sBooks' = [sBooks EXCEPT ![s].call = EmptyLeaf, ![s].put = EmptyLeaf]
    /\ UNCHANGED <<underlyings, uBooks, eBooks, placed, overflowChecks, scan>>

\* ---- the leaves of a StrikeOrderBook and the ways to reach them
\* A leaf is named by the StrikeOrderBook holding it and the field it is held in.
OptionStyles == {"call", "put"}

\* StrikeOrderBook::call : `&self.call`
CallLeaf(s) == <<s, "call">>
\* StrikeOrderBook::call_arc : `Arc::clone(&self.call)`
CallArc(s) == <<s, "call">>
\* StrikeOrderBook::put : `&self.put`
PutLeaf(s) == <<s, "put">>
\* StrikeOrderBook::put_arc : `Arc::clone(&self.put)`
PutArc(s) == <<s, "put">>
\* A get that hands out the call leaf for both styles.
GetLeafCallOnly(s, style) == <<s, "call">>
\* StrikeOrderBook::get : `match option_style { Call => &self.call, Put => &self.put }`
GetLeaf(s, style) == IF style = "call" THEN <<s, "call">> ELSE <<s, "put">>
\* StrikeOrderBook::get_arc
GetArc(s, style) == IF style = "call" THEN <<s, "call">> ELSE <<s, "put">>

\* Every way of reaching a leaf of StrikeOrderBook s.
LeafAccessors(s) ==
    {CallLeaf(s), CallArc(s), PutLeaf(s), PutArc(s)}
        \cup {GetLeaf(s, style) : style \in OptionStyles}
        \cup {GetArc(s, style) : style \in OptionStyles}

\* The leaf a name denotes.
LeafAt(ref) == IF ref[2] = "call" THEN sBooks[ref[1]].call ELSE sBooks[ref[1]].put

\* The leaf named ref becomes leaf.
SetLeaf(ref, leaf) ==
    sBooks' = [sBooks EXCEPT ![ref[1]] =
                  IF ref[2] = "call" THEN [@ EXCEPT !.call = leaf] ELSE [@ EXCEPT !.put = leaf]]

\* How arg records the leaf of a call: 1 the call field, 2 the put field.
LeafKey(ref) == IF ref[2] = "call" THEN 1 ELSE 2

\* add_limit_order on the leaf named ref, for an order that rests in the book.
LeafAddLimitOrderAt(t, ref, side) ==
    /\ ref[1] \in DOMAIN sBooks
    /\ (IF side = "buy" THEN LeafAt(ref).bids ELSE LeafAt(ref).asks) < MaxLoad
    /\ Call(t, "add_limit_order", LvlStrike, ref[1], LeafKey(ref))
    /\ Return(t, Unit("add_limit_order", LvlStrike))
    /\ SetLeaf(ref, LeafAdd(LeafAt(ref), side))
    /\ UNCHANGED <<underlyings, uBooks, eBooks, placed, overflowChecks, scan>>

\* OptionOrderBook::clear on the leaf named ref.
LeafClear(t, ref) ==
    /\ ref[1] \in DOMAIN sBooks
    /\ Call(t, "leaf_clear", LvlStrike, ref[1], LeafKey(ref))
    /\ Return(t, Unit("leaf_clear", LvlStrike))
    /\ SetLeaf(ref, EmptyLeaf)
    /\ UNCHANGED <<underlyings, uBooks, eBooks, placed, overflowChecks, scan>>

\* OptionOrderBook::order_count on the leaf named ref.
ReadLeafOrderCount(t, ref) ==
    /\ ref[1] \in DOMAIN sBooks
    /\ Reads(t, "leaf_order_count", LvlStrike, ref[1], LeafKey(ref),
             Count("leaf_order_count", LvlStrike, LeafOrderCount(LeafAt(ref))))

\* ---- Greeks
\* The Greek values a caller passes.
Greeks == {1, 2}

\* An update_put_greeks that assigns the call side.
UpdatePutGreeksCallSide(t, s, g) ==
    /\ s \in DOMAIN sBooks
    /\ Call(t, "update_put_greeks", LvlStrike, s, g)
    /\ Return(t, Unit("update_put_greeks", LvlStrike))
    /\ sBooks' = [sBooks EXCEPT ![s].call_greeks = g]
    /\ UNCHANGED <<underlyings, uBooks, eBooks, placed, overflowChecks, scan>>

\* StrikeOrderBook::update_call_greeks : `self.call_greeks = Some(greeks)`
UpdateCallGreeks(t, s, g) ==
    /\ s \in DOMAIN sBooks
    /\ Call(t, "update_call_greeks", LvlStrike, s, g)
    /\ Return(t, Unit("update_call_greeks", LvlStrike))
    /\ sBooks' = [sBooks EXCEPT ![s].call_greeks = g]
    /\ UNCHANGED <<underlyings, uBooks, eBooks, placed, overflowChecks, scan>>

\* StrikeOrderBook::update_put_greeks : `self.put_greeks = Some(greeks)`
UpdatePutGreeks(t, s, g) ==
    /\ s \in DOMAIN sBooks
    /\ Call(t, "update_put_greeks", LvlStrike, s, g)
    /\ Return(t, Unit("update_put_greeks", LvlStrike))
    /\ sBooks' = [sBooks EXCEPT ![s].put_greeks = g]
    /\ UNCHANGED <<underlyings, uBooks, eBooks, placed, overflowChecks, scan>>

\* StrikeOrderBook::call_greeks : `self.call_greeks.as_ref()`; Nil is None.
ReadCallGreeks(t, s) ==
    /\ s \in DOMAIN sBooks
    /\ Reads(t, "call_greeks", LvlStrike, s, 0, Count("call_greeks", LvlStrike, sBooks[s].call_greeks))

\* StrikeOrderBook::put_greeks
ReadPutGreeks(t, s) ==
    /\ s \in DOMAIN sBooks
    /\ Reads(t, "put_greeks", LvlStrike, s, 0, Count("put_greeks", LvlStrike, sBooks[s].put_greeks))

\* The read-path descent of a caller: manager.get(s), then get_expiration(e) on the
\* underlying it returned, then get_strike(k) on the expiration that returned;
\* the first error ends the descent.
Descent(s, e, k) ==
    LET r1 == GetResult(LvlUnderlying, underlyings, s)
    IN IF ~r1.ok THEN r1
       ELSE LET r2 == GetResult(LvlExpiration, uBooks[r1.val].expirations, e)
            IN IF ~r2.ok THEN r2
               ELSE GetResult(LvlStrike, eBooks[r2.val].strikes, k)

\* --------------------------------------------------- the operations
\* One action per public operation and level; K is the set of keys the callers use.
UnderlyingManagerGetOrCreate(t, K) == \E k \in K : GetOrCreateLookup(t, LvlUnderlying, 0, k)
ExpirationManagerGetOrCreate(t, K) ==
    \E m \in DOMAIN uBooks, k \in K : GetOrCreateLookup(t, LvlExpiration, m, k)
StrikeManagerGetOrCreate(t, K) ==
    \E m \in DOMAIN eBooks, k \in K : GetOrCreateLookup(t, LvlStrike, m, k)
UnderlyingManagerRemove(t, K) == \E k \in K : Remove(t, LvlUnderlying, 0, k)
ExpirationManagerRemove(t, K) ==
    \E m \in DOMAIN uBooks, k \in K : Remove(t, LvlExpiration, m, k)
StrikeManagerRemove(t, K) ==
    \E m \in DOMAIN eBooks, k \in K : Remove(t, LvlStrike, m, k)
LeafAddLimitOrder(t) ==
    \E s \in DOMAIN sBooks, style \in {"call", "put"}, side \in {"buy", "sell"} :
        AddLimitOrder(t, s, style, side)

\* Spec: two threads call the mutating operations of the registry concurrently.
RaceUnderlyingGetOrCreate == \E t \in Threads : UnderlyingManagerGetOrCreate(t, RaceSymbols)
RaceExpirationGetOrCreate == \E t \in Threads : ExpirationManagerGetOrCreate(t, RaceExpirations)
RaceStrikeGetOrCreate == \E t \in Threads : StrikeManagerGetOrCreate(t, RaceStrikes)
RaceInsert == \E t \in Threads : GetOrCreateInsert(t)
RaceUnderlyingRemove == \E t \in Threads : UnderlyingManagerRemove(t, RaceSymbols)
RaceExpirationRemove == \E t \in Threads : ExpirationManagerRemove(t, RaceExpirations)
RaceStrikeRemove == \E t \in Threads : StrikeManagerRemove(t, RaceStrikes)
RaceContinue == \E t \in Threads : Continue(t)

Next ==
    \/ RaceUnderlyingGetOrCreate
    \/ RaceExpirationGetOrCreate
    \/ RaceStrikeGetOrCreate
    \/ RaceInsert
    \/ RaceUnderlyingRemove
    \/ RaceExpirationRemove
    \/ RaceStrikeRemove
    \/ RaceContinue

Spec == Init /\ [][Next]_vars

\* ------------------------------------------------------------------
\* SpecPlace: two threads descend with get_or_create at the three levels and
\* place orders through the strike handles they obtained; nothing is removed.
NextPlace ==
    \/ RaceUnderlyingGetOrCreate
    \/ RaceExpirationGetOrCreate
    \/ RaceStrikeGetOrCreate
    \/ RaceInsert
    \/ \E t \in Threads, style \in OptionStyles, side \in {"buy", "sell"} :
           AddLimitOrderThroughHandle(t, style, side)
    \/ RaceContinue

SpecPlace == Init /\ [][NextPlace]_vars

\* ------------------------------------------------------------------
\* SpecSeq: one caller (thread 1) uses every operation, one call after the other.
Caller == CHOOSE t \in Threads : \A u \in Threads : t <= u
Spots == {0, 1, 2, 3}

SeqUnderlyingGetOrCreate == UnderlyingManagerGetOrCreate(Caller, Symbols)
SeqExpirationGetOrCreate == ExpirationManagerGetOrCreate(Caller, Expirations)
SeqStrikeGetOrCreate == StrikeManagerGetOrCreate(Caller, Strikes)
SeqInsert == GetOrCreateInsert(Caller)
SeqUnderlyingRemove == UnderlyingManagerRemove(Caller, Symbols)
SeqExpirationRemove == ExpirationManagerRemove(Caller, Expirations)
SeqStrikeRemove == StrikeManagerRemove(Caller, Strikes)
SeqAddLimitOrder == LeafAddLimitOrder(Caller)
SeqContinue == Continue(Caller)
SeqGet ==
    \/ \E k \in Symbols : Get(Caller, LvlUnderlying, 0, k)
    \/ \E m \in DOMAIN uBooks, k \in Expirations : Get(Caller, LvlExpiration, m, k)
    \/ \E m \in DOMAIN eBooks, k \in Strikes : Get(Caller, LvlStrike, m, k)
SeqContains ==
    \/ \E k \in Symbols : Contains(Caller, LvlUnderlying, 0, k)
    \/ \E m \in DOMAIN uBooks, k \in Expirations : Contains(Caller, LvlExpiration, m, k)
    \/ \E m \in DOMAIN eBooks, k \in Strikes : Contains(Caller, LvlStrike, m, k)
SeqLen == \E lvl \in {LvlUnderlying, LvlExpiration, LvlStrike} : \E m \in Managers(lvl) : LenOf(Caller, lvl, m)
SeqIsEmpty == \E lvl \in {LvlUnderlying, LvlExpiration, LvlStrike} : \E m \in Managers(lvl) : IsEmpty(Caller, lvl, m)
SeqStrikePrices == \E e \in DOMAIN eBooks : StrikePrices(Caller, e)
SeqUnderlyingSymbols == UnderlyingSymbols(Caller)
SeqAtmStrike == \E e \in DOMAIN eBooks, spot \in Spots : AtmStrike(Caller, e, spot)
SeqTotalOrderCount ==
    \E lvl \in {LvlUnderlying, LvlExpiration, LvlStrike} : \E m \in Managers(lvl) : TotalOrderCount(Caller, lvl, m)
SeqTotalStrikeCount ==
    \E lvl \in {LvlUnderlying, LvlExpiration} : \E m \in Managers(lvl) : TotalStrikeCount(Caller, lvl, m)
SeqTotalExpirationCount == TotalExpirationCount(Caller)
SeqStats == \E lvl \in {LvlUnderlying, LvlExpiration, LvlStrike} : \E m \in Managers(lvl) : Stats(Caller, lvl, m)

NextSeq ==
    \/ SeqUnderlyingGetOrCreate
    \/ SeqExpirationGetOrCreate
    \/ SeqStrikeGetOrCreate
    \/ SeqInsert
    \/ SeqUnderlyingRemove
    \/ SeqExpirationRemove
    \/ SeqStrikeRemove
    \/ SeqAddLimitOrder
    \/ SeqContinue
    \/ SeqGet
    \/ SeqContains
    \/ SeqLen
    \/ SeqIsEmpty
    \/ SeqStrikePrices
    \/ SeqUnderlyingSymbols
    \/ SeqAtmStrike
    \/ SeqTotalOrderCount
    \/ SeqTotalStrikeCount
    \/ SeqTotalExpirationCount
    \/ SeqStats

SpecSeq == Init /\ [][NextSeq]_vars

\* ------------------------------------------------------------------
\* SpecAtm: atm_strike on an expiration whose strikes and spot price range over
\* the whole unsigned type, under both settings of overflow checks.

\* The keys of the set S in ascending order.
RECURSIVE Ascending(_)
Ascending(S) ==
    IF S = {} THEN <<>>
    ELSE LET least == CHOOSE k \in S : \A j \in S : k <= j
         IN <<least>> \o Ascending(S \ {least})

\* One underlying with one expiration whose strikes, created in ascending order by
\* a single caller, are the set S; the build has overflow checks on or off.
InitAtm ==
    \E S \in SUBSET StrikeRange :
        /\ Cardinality(S) <= MaxAtmStrikes
        /\ underlyings = <<Entry(1, 1)>>
        /\ uBooks = <<[NewUnderlyingOrderBook(1, 0) EXCEPT !.expirations = <<Entry(1, 1)>>]>>
        /\ eBooks = <<[NewExpirationOrderBook(1, 1, 1) EXCEPT
                          !.strikes = [i \in 1 .. Cardinality(S) |-> Entry(Ascending(S)[i], i)]]>>
        /\ sBooks = [i \in 1 .. Cardinality(S) |-> NewStrikeOrderBook(1, 1, Ascending(S)[i], 1)]
        /\ pc = [t \in Threads |-> "idle"]
        /\ arg = [t \in Threads |-> NoCall]
        /\ ret = [t \in Threads |-> NoRet]
        /\ placed = 0
        /\ overflowChecks \in BOOLEAN
        /\ scan = [t \in Threads |-> NoScan]

AtmCall == \E e \in DOMAIN eBooks, spot \in StrikeRange : AtmStrike(Caller, e, spot)
AtmContinue == Continue(Caller)

NextAtm ==
    \/ AtmCall
    \/ AtmContinue

SpecAtm == InitAtm /\ [][NextAtm]_vars

\* ------------------------------------------------------------------
\* SpecAgg: the aggregates over a tree with two underlyings, reached by a single
\* caller through get_or_create and order placement: underlying 1 has expiration 1
\* with strikes 1 and 2, underlying 2 has expiration 1 with strike 1, and each
\* strike holds up to MaxLoad resting call bids.  From there the caller removes
\* entries at any level and reads the aggregates.

\* A StrikeOrderBook with n resting bids in its call leaf.
LoadedStrikeOrderBook(u, e, k, mgr, n) ==
    [NewStrikeOrderBook(u, e, k, mgr) EXCEPT !.call = [bids |-> n, asks |-> 0]]

InitAgg ==
    \E n1, n2, n3 \in 0 .. MaxLoad :
        /\ underlyings = <<Entry(1, 1), Entry(2, 2)>>
        /\ uBooks = <<[NewUnderlyingOrderBook(1, 0) EXCEPT !.expirations = <<Entry(1, 1)>>],
                      [NewUnderlyingOrderBook(2, 0) EXCEPT !.expirations = <<Entry(1, 2)>>]>>
        /\ eBooks = <<[NewExpirationOrderBook(1, 1, 1) EXCEPT !.strikes = <<Entry(1, 1), Entry(2, 2)>>],
                      [NewExpirationOrderBook(2, 1, 2) EXCEPT !.strikes = <<Entry(1, 3)>>]>>
        /\ sBooks = <<LoadedStrikeOrderBook(1, 1, 1, 1, n1),
                      LoadedStrikeOrderBook(1, 1, 2, 1, n2),
                      LoadedStrikeOrderBook(2, 1, 1, 2, n3)>>
        /\ pc = [t \in Threads |-> "idle"]
        /\ arg = [t \in Threads |-> NoCall]
        /\ ret = [t \in Threads |-> NoRet]
        /\ placed = 0
        /\ overflowChecks = FALSE
        /\ scan = [t \in Threads |-> NoScan]

AggUnderlyingRemove == UnderlyingManagerRemove(Caller, {1, 2})
AggExpirationRemove == ExpirationManagerRemove(Caller, {1})
AggStrikeRemove == StrikeManagerRemove(Caller, {1, 2})
AggStats == \E lvl \in {LvlUnderlying, LvlExpiration, LvlStrike} : \E m \in Managers(lvl) : Stats(Caller, lvl, m)
AggTotalOrderCount ==
    \E lvl \in {LvlUnderlying, LvlExpiration, LvlStrike} : \E m \in Managers(lvl) : TotalOrderCount(Caller, lvl, m)
AggContinue == Continue(Caller)

NextAgg ==
    \/ AggUnderlyingRemove
    \/ AggExpirationRemove
    \/ AggStrikeRemove
    \/ AggStats
    \/ AggTotalOrderCount
    \/ AggContinue

SpecAgg == InitAgg /\ [][NextAgg]_vars

\* ------------------------------------------------------------------
\* SpecBook: the operations of one StrikeOrderBook, registered as strike 1 of
\* expiration 1 of underlying 1, whose call and put leaves hold up to MaxLoad
\* resting bids and asks each.

InitBook ==
    \E cb, ca, pb, pa \in 0 .. MaxLoad :
        /\ underlyings = <<Entry(1, 1)>>
        /\ uBooks = <<[NewUnderlyingOrderBook(1, 0) EXCEPT !.expirations = <<Entry(1, 1)>>]>>
        /\ eBooks = <<[NewExpirationOrderBook(1, 1, 1) EXCEPT !.strikes = <<Entry(1, 1)>>]>>
        /\ sBooks = <<[NewStrikeOrderBook(1, 1, 1, 1) EXCEPT
                          !.call = [bids |-> cb, asks |-> ca],
                          !.put = [bids |-> pb, asks |-> pa]]>>
        /\ pc = [t \in Threads |-> "idle"]
        /\ arg = [t \in Threads |-> NoCall]
        /\ ret = [t \in Threads |-> NoRet]
        /\ placed = 0
        /\ overflowChecks = FALSE
        /\ scan = [t \in Threads |-> NoScan]

BookIsFullyQuoted == \E s \in DOMAIN sBooks : ReadIsFullyQuoted(Caller, s)
BookOrderCount == \E s \in DOMAIN sBooks : ReadOrderCount(Caller, s)
BookEmptiness == \E s \in DOMAIN sBooks : ReadBookIsEmpty(Caller, s)
BookClear == \E s \in DOMAIN sBooks : Clear(Caller, s)
BookAddLimitOrder == LeafAddLimitOrder(Caller)
BookStrikeCount == \E e \in DOMAIN eBooks : LenOf(Caller, LvlStrike, e)
BookContinue == Continue(Caller)

NextBook ==
    \/ BookIsFullyQuoted
    \/ BookOrderCount
    \/ BookEmptiness
    \/ BookClear
    \/ BookAddLimitOrder
    \/ BookStrikeCount
    \/ BookContinue

SpecBook == InitBook /\ [][NextBook]_vars

\* ------------------------------------------------------------------
\* SpecIter: thread 1 runs strike_prices() and stats() while thread 2 creates and
\* removes strikes of the same map and places orders.  An iterator over a
\* SkipMap is lazy: each next() is a step of its own and other threads run in
\* between.  stats() reads its four fields one after the other; the iteration
\* inside one total is taken as one step.
IterStrikes == {1, 2, 3}
Mutator == CHOOSE t \in Threads : t # Caller

\* One underlying with one expiration whose registered strikes are a subset S of K.
InitStrikes(K) ==
    \E S \in SUBSET K :
        /\ underlyings = <<Entry(1, 1)>>
        /\ uBooks = <<[NewUnderlyingOrderBook(1, 0) EXCEPT !.expirations = <<Entry(1, 1)>>]>>
        /\ eBooks = <<[NewExpirationOrderBook(1, 1, 1) EXCEPT
                          !.strikes = [i \in 1 .. Cardinality(S) |-> Entry(Ascending(S)[i], i)]]>>
        /\ sBooks = [i \in 1 .. Cardinality(S) |-> NewStrikeOrderBook(1, 1, Ascending(S)[i], 1)]
        /\ pc = [t \in Threads |-> "idle"]
        /\ arg = [t \in Threads |-> NoCall]
        /\ ret = [t \in Threads |-> NoRet]
        /\ placed = 0
        /\ overflowChecks = FALSE
        /\ scan = [t \in Threads |-> NoScan]

InitIter == InitStrikes(IterStrikes)

\* The keys of a map as a set.
KeySet(m) == {m[i].key : i \in DOMAIN m}

\* strike_prices : `self.strikes.iter()` creates the iterator; nothing is read yet.
StrikePricesBegin(t, e) ==
    /\ e \in DOMAIN eBooks
    /\ Call(t, "strike_prices", LvlStrike, e, 0)
    /\ pc' = [pc EXCEPT ![t] = "scan"]
    /\ scan' = [scan EXCEPT ![t] = [NoScan EXCEPT !.always = KeySet(eBooks[e].strikes),
                                                  !.ever = KeySet(eBooks[e].strikes)]]
    /\ UNCHANGED <<ret, underlyings, uBooks, eBooks, sBooks, placed, overflowChecks>>

\* An iterator step that starts over from the head of the map and yields the
\* least key it has not collected yet.
StrikePricesNextFromHead(t) ==
    /\ pc[t] = "scan" /\ arg[t].op = "strike_prices"
    /\ LET K == KeySet(eBooks[arg[t].mgr].strikes)
           seen == {scan[t].acc[i] : i \in DOMAIN scan[t].acc}
           rest == K \ seen
           hist == [scan[t] EXCEPT !.always = @ \cap K, !.ever = @ \cup K]
       IN IF rest # {}
          THEN LET k == CHOOSE x \in rest : \A y \in rest : x <= y
               IN /\ scan' = [scan EXCEPT ![t] = [hist EXCEPT !.cursor = k, !.acc = Append(@, k)]]
                  /\ UNCHANGED <<pc, ret>>
          ELSE /\ scan' = [scan EXCEPT ![t] = hist]
               /\ Return(t, List("strike_prices", LvlStrike, scan[t].acc))
    /\ UNCHANGED <<arg, underlyings, uBooks, eBooks, sBooks, placed, overflowChecks>>

\* Iterator::next inside `.map(|e| *e.key()).collect()`: the iterator moves to the
\* first entry now in the map whose key is above the last key it yielded; when
\* there is none, collect returns the keys gathered.
StrikePricesNext(t) ==
    /\ pc[t] = "scan" /\ arg[t].op = "strike_prices"
    /\ LET K == KeySet(eBooks[arg[t].mgr].strikes)
           rest == {x \in K : x > scan[t].cursor}
           hist == [scan[t] EXCEPT !.always = @ \cap K, !.ever = @ \cup K]
       IN IF rest # {}
          THEN LET k == CHOOSE x \in rest : \A y \in rest : x <= y
               IN /\ scan' = [scan EXCEPT ![t] = [hist EXCEPT !.cursor = k, !.acc = Append(@, k)]]
                  /\ UNCHANGED <<pc, ret>>
          ELSE /\ scan' = [scan EXCEPT ![t] = hist]
               /\ Return(t, List("strike_prices", LvlStrike, scan[t].acc))
    /\ UNCHANGED <<arg, underlyings, uBooks, eBooks, sBooks, placed, overflowChecks>>

\* A field read that takes the count of the level below its own.
StatsFieldShifted(i) == GlobalStats[IF i = 4 THEN 4 ELSE i + 1]

\* The i-th field of GlobalStats as stats() computes it: len(),
\* total_expiration_count(), total_strike_count(), total_order_count().
StatsField(i) == GlobalStats[i]

\* UnderlyingOrderBookManager::stats begins.
StatsBegin(t) ==
    /\ Call(t, "stats", LvlUnderlying, 0, 0)
    /\ pc' = [pc EXCEPT ![t] = "scan"]
    /\ scan' = [scan EXCEPT ![t] = [NoScan EXCEPT !.start = GlobalStats]]
    /\ UNCHANGED <<ret, underlyings, uBooks, eBooks, sBooks, placed, overflowChecks>>

\* stats() computes its next field; after the fourth it returns the struct.
StatsNext(t) ==
    /\ pc[t] = "scan" /\ arg[t].op = "stats"
    /\ LET acc == Append(scan[t].acc, StatsField(Len(scan[t].acc) + 1))
       IN IF Len(acc) < 4
          THEN /\ scan' = [scan EXCEPT ![t].acc = acc]
               /\ UNCHANGED <<pc, ret>>
          ELSE /\ scan' = [scan EXCEPT ![t].acc = acc, ![t].end = GlobalStats]
               /\ Return(t, List("stats", LvlUnderlying, acc))
    /\ UNCHANGED <<arg, underlyings, uBooks, eBooks, sBooks, placed, overflowChecks>>

\* The caller takes the returned value; the history of its call is dropped.
ScanContinue(t) ==
    /\ pc[t] = "done"
    /\ pc' = [pc EXCEPT ![t] = "idle"]
    /\ arg' = [arg EXCEPT ![t] = NoCall]
    /\ ret' = [ret EXCEPT ![t] = NoRet]
    /\ scan' = [scan EXCEPT ![t] = NoScan]
    /\ UNCHANGED <<underlyings, uBooks, eBooks, sBooks, placed, overflowChecks>>

NextIter ==
    \/ StrikeManagerGetOrCreate(Mutator, IterStrikes)
    \/ GetOrCreateInsert(Mutator)
    \/ StrikeManagerRemove(Mutator, IterStrikes)
    \/ LeafAddLimitOrder(Mutator)
    \/ \E e \in DOMAIN eBooks : StrikePricesBegin(Caller, e)
    \/ StrikePricesNext(Caller)
    \/ StatsBegin(Caller)
    \/ StatsNext(Caller)
    \/ \E t \in Threads : ScanContinue(t)

SpecIter == InitIter /\ [][NextIter]_vars

\* SpecLive: the same two threads on the strikes the racing callers use, without
\* orders; the scheduler lets every thread that is inside a call take its next
\* step eventually.
InitLive == InitStrikes(RaceStrikes)

NextLive ==
    \/ StrikeManagerGetOrCreate(Mutator, RaceStrikes)
    \/ GetOrCreateInsert(Mutator)
    \/ StrikeManagerRemove(Mutator, RaceStrikes)
    \/ \E e \in DOMAIN eBooks : StrikePricesBegin(Caller, e)
    \/ StrikePricesNext(Caller)
    \/ StatsBegin(Caller)
    \/ StatsNext(Caller)
    \/ \E t \in Threads : ScanContinue(t)

SpecLive ==
    /\ InitLive /\ [][NextLive]_vars
    /\ WF_vars(GetOrCreateInsert(Mutator))
    /\ WF_vars(StrikePricesNext(Caller))
    /\ WF_vars(StatsNext(Caller))

\* ------------------------------------------------------------------
\* SpecFacade: one caller reaches the strikes of an expiration through its three
\* views: the ExpirationOrderBook, the OptionChainOrderBook it owns, and the
\* StrikeOrderBookManager the chain owns.
Views == {"expiration", "chain", "manager"}
FacadeOps == {"get_strike", "strike_count", "is_empty", "strike_prices", "total_order_count", "atm_strike"}

\* A chain field that is the chain of the first expiration book for every book.
ChainOfFirst(e) == 1

\* ExpirationOrderBook.chain: the chain constructed in ExpirationOrderBook::new,
\* named like the book that owns it.
ChainOf(e) == e

\* OptionChainOrderBook.strikes: the manager constructed in
\* OptionChainOrderBook::new, named like the chain that owns it.
StrikesOf(c) == c

\* What StrikeOrderBookManager m returns for the operation a facade method op
\* ends in: get, len, is_empty, strike_prices, total_order_count, atm_strike.
ManagerResult(op, m, k) ==
    IF op = "get_strike" THEN GetResult(LvlStrike, MapOf(LvlStrike, m), k)
    ELSE IF op = "strike_count" THEN Count("len", LvlStrike, SkipLen(MapOf(LvlStrike, m)))
    ELSE IF op = "is_empty" THEN Bool("is_empty", LvlStrike, SkipLen(MapOf(LvlStrike, m)) = 0)
    ELSE IF op = "strike_prices" THEN List("strike_prices", LvlStrike, SkipKeys(MapOf(LvlStrike, m)))
    ELSE IF op = "total_order_count" THEN Count("total_order_count", LvlStrike, StrikeTotalOrderCount(m))
    ELSE AtmStrikeResult(MapOf(LvlStrike, m), k)

\* OptionChainOrderBook::op : `self.strikes.op(..)`
ChainResult(op, c, k) == ManagerResult(op, StrikesOf(c), k)

\* ExpirationOrderBook::op : `self.chain.op(..)`
ExpirationResult(op, e, k) == ChainResult(op, ChainOf(e), k)

\* Operation op of ExpirationOrderBook e, of its chain, or of its chain's manager.
ViewResult(view, op, e, k) ==
    IF view = "expiration" THEN ExpirationResult(op, e, k)
    ELSE IF view = "chain" THEN ChainResult(op, ChainOf(e), k)
    ELSE ManagerResult(op, StrikesOf(ChainOf(e)), k)

\* The name arg records for op called on a view.
ViewOp(view, op) == view \o "." \o op

\* A read through a view of ExpirationOrderBook e.
FacadeRead(t, view, op, e, k) ==
    /\ e \in DOMAIN eBooks
    /\ Reads(t, ViewOp(view, op), LvlStrike, e, k, ViewResult(view, op, e, k))

\* get_or_create_strike through a view of ExpirationOrderBook e: every view ends in
\* StrikeOrderBookManager::get_or_create of the manager it delegates to.
FacadeGetOrCreateStrike(t, view, e, k) ==
    /\ e \in DOMAIN eBooks
    /\ GetOrCreateLookup(t, LvlStrike,
                         IF view = "manager" THEN e
                         ELSE IF view = "chain" THEN StrikesOf(e)
                         ELSE StrikesOf(ChainOf(e)), k)

NextFacade ==
    \/ UnderlyingManagerGetOrCreate(Caller, RaceSymbols)
    \/ ExpirationManagerGetOrCreate(Caller, Expirations)
    \/ \E view \in Views, e \in DOMAIN eBooks, k \in Strikes : FacadeGetOrCreateStrike(Caller, view, e, k)
    \/ GetOrCreateInsert(Caller)
    \/ ExpirationManagerRemove(Caller, Expirations)
    \/ StrikeManagerRemove(Caller, Strikes)
    \/ LeafAddLimitOrder(Caller)
    \/ \E view \in Views, op \in FacadeOps, e \in DOMAIN eBooks, k \in Spots :
           FacadeRead(Caller, view, op, e, k)
    \/ Continue(Caller)

SpecFacade == Init /\ [][NextFacade]_vars

\* ------------------------------------------------------------------
\* SpecOwned: a caller owns one StrikeOrderBook it constructed itself
\* (`let mut strike = StrikeOrderBook::new(..)`), so that it may also call the
\* operations taking `&mut self`; the book is in no manager.
InitOwned ==
    /\ underlyings = <<>>
    /\ uBooks = <<>>
    /\ eBooks = <<>>
    /\ sBooks = <<NewStrikeOrderBook(1, 1, 1, Nil)>>
    /\ pc = [t \in Threads |-> "idle"]
    /\ arg = [t \in Threads |-> NoCall]
    /\ ret = [t \in Threads |-> NoRet]
    /\ placed = 0
    /\ overflowChecks = FALSE
    /\ scan = [t \in Threads |-> NoScan]

NextOwned ==
    \/ \E s \in DOMAIN sBooks : \E ref \in LeafAccessors(s), side \in {"buy", "sell"} :
           LeafAddLimitOrderAt(Caller, ref, side)
    \/ \E s \in DOMAIN sBooks : \E ref \in LeafAccessors(s) : LeafClear(Caller, ref)
    \/ \E s \in DOMAIN sBooks : \E ref \in LeafAccessors(s) : ReadLeafOrderCount(Caller, ref)
    \/ \E s \in DOMAIN sBooks : Clear(Caller, s)
    \/ \E s \in DOMAIN sBooks : ReadOrderCount(Caller, s)
    \/ \E s \in DOMAIN sBooks, g \in Greeks : UpdateCallGreeks(Caller, s, g)
    \/ \E s \in DOMAIN sBooks, g \in Greeks : UpdatePutGreeks(Caller, s, g)
    \/ \E s \in DOMAIN sBooks : ReadCallGreeks(Caller, s)
    \/ \E s \in DOMAIN sBooks : ReadPutGreeks(Caller, s)
    \/ Continue(Caller)

SpecOwned == InitOwned /\ [][NextOwned]_vars

\* =====================================================================
\* Properties
\* =====================================================================
Levels == {LvlUnderlying, LvlExpiration, LvlStrike}

\* The objects constructed by manager mgr of level lvl for key k.  Each of them
\* was returned to the get_or_create call that constructed it.
ObjectsFor(lvl, mgr, k) ==
    {id \in DOMAIN HeapOf(lvl) : HeapOf(lvl)[id].owner = mgr /\ KeyOfObject(lvl, id) = k}

\* No remove call has taken an entry for k out of the map of manager mgr.
NeverRemoved(lvl, mgr, k) ==
    \A id \in ObjectsFor(lvl, mgr, k) : ~HeapOf(lvl)[id].unlinked

\* Thread t holds the handle its last get_or_create returned.
HoldsHandle(t) == pc[t] = "done" /\ ret[t].op = "get_or_create"
HandleOwner(t) == HeapOf(ret[t].lvl)[ret[t].val].owner
HandleKey(t) == KeyOfObject(ret[t].lvl, ret[t].val)

\* C1 (idempotent creation under concurrency): two get_or_create(k) calls on the
\* same manager, at any level, with no remove of k, return the same instance.
C1_IdempotentCreation ==
    \A t1, t2 \in Threads :
        ( /\ HoldsHandle(t1) /\ HoldsHandle(t2)
          /\ ret[t1].lvl = ret[t2].lvl
          /\ HandleOwner(t1) = HandleOwner(t2)
          /\ HandleKey(t1) = HandleKey(t2)
          /\ NeverRemoved(ret[t1].lvl, HandleOwner(t1), HandleKey(t1)) )
        => ret[t1].val = ret[t2].val

\* C2 (no implicit deletion): as long as remove(k) was not called, the instance a
\* get_or_create(k) call returned is the one a get(k) on that manager finds.
C2_NoImplicitDeletion ==
    \A t \in Threads :
        ( /\ HoldsHandle(t)
          /\ NeverRemoved(ret[t].lvl, HandleOwner(t), HandleKey(t)) )
        => SkipGet(MapOf(ret[t].lvl, HandleOwner(t)), HandleKey(t)) = ret[t].val

\* C3 (keys are unique within a map): every map holds at most one entry per key,
\* its length is the number of registered keys and its key listing has no
\* duplicate, also after racing get_or_create calls.
MapKeysUnique(m) ==
    /\ \A i, j \in DOMAIN m : m[i].key = m[j].key => i = j
    /\ SkipLen(m) = Cardinality({m[i].key : i \in DOMAIN m})
    /\ \A i, j \in DOMAIN SkipKeys(m) : SkipKeys(m)[i] = SkipKeys(m)[j] => i = j

C3_KeysUnique ==
    \A lvl \in Levels : \A mgr \in Managers(lvl) : MapKeysUnique(MapOf(lvl, mgr))

\* A creation race has happened: two objects constructed for one key of one
\* manager, neither taken out by remove, and the key is registered.
C3_Witness ==
    \E lvl \in Levels : \E mgr \in Managers(lvl) : \E a, b \in DOMAIN HeapOf(lvl) :
        /\ a # b
        /\ HeapOf(lvl)[a].owner = mgr /\ HeapOf(lvl)[b].owner = mgr
        /\ KeyOfObject(lvl, a) = KeyOfObject(lvl, b)
        /\ NeverRemoved(lvl, mgr, KeyOfObject(lvl, a))
        /\ SkipContainsKey(MapOf(lvl, mgr), KeyOfObject(lvl, a))
        /\ \A t \in Threads : pc[t] # "insert"

\* ---------------------------------------------------------------------
\* Steps of the single caller of SpecSeq.

\* The map of manager mgr of level lvl after the step.
MapOfNext(lvl, mgr) ==
    IF lvl = LvlUnderlying THEN underlyings'
    ELSE IF lvl = LvlExpiration THEN uBooks'[mgr].expirations
    ELSE eBooks'[mgr].strikes

\* The step is a call of op by the caller (its arguments are arg'[Caller]).
StartsCall(op) ==
    /\ pc[Caller] # "insert"
    /\ pc'[Caller] # "idle"
    /\ arg'[Caller].op = op

\* The caller's call of op has returned and nothing has happened since.
Returned(op) == pc[Caller] = "done" /\ arg[Caller].op = op

\* The object most recently constructed by manager mgr of level lvl for key k:
\* with a single caller, the one its last creating get_or_create(k) returned.
LatestFor(lvl, mgr, k) ==
    CHOOSE id \in ObjectsFor(lvl, mgr, k) : \A j \in ObjectsFor(lvl, mgr, k) : j <= id

\* The registry: the maps and all objects with their leaves.
registry == <<underlyings, uBooks, eBooks, sBooks>>

\* C4 (sequential idempotence of get_or_create): when the caller's last creating
\* get_or_create(k) returned X and no remove(k) took X out since, a further
\* get_or_create(k) returns X at once and leaves the maps (so len() and the key
\* set), every object and every leaf's resting orders unchanged.
C4_Step ==
    LET c == arg'[Caller]
    IN ( /\ StartsCall("get_or_create")
         /\ ObjectsFor(c.lvl, c.mgr, c.key) # {}
         /\ ~HeapOf(c.lvl)[LatestFor(c.lvl, c.mgr, c.key)].unlinked )
       => /\ pc'[Caller] = "done"
          /\ ret'[Caller] = Handle("get_or_create", c.lvl, LatestFor(c.lvl, c.mgr, c.key))
          /\ SkipLen(MapOfNext(c.lvl, c.mgr)) = SkipLen(MapOf(c.lvl, c.mgr))
          /\ SkipKeys(MapOfNext(c.lvl, c.mgr)) = SkipKeys(MapOf(c.lvl, c.mgr))
          /\ UNCHANGED registry

C4_SequentialIdempotence == [][C4_Step]_vars

\* A get_or_create of a strike has returned an instance that already held a
\* resting order: the call was not the one that created it.
C4_Witness ==
    /\ Returned("get_or_create")
    /\ arg[Caller].lvl = LvlStrike
    /\ sBooks[ret[Caller].val].call.bids + sBooks[ret[Caller].val].call.asks > 0
    /\ SkipGet(eBooks[arg[Caller].mgr].strikes, arg[Caller].key) = ret[Caller].val

\* C5 (not-found correctness): get(k) returns the NotFound error of its level
\* exactly when contains(k) is false at the time of the call, and otherwise the
\* instance registered for k.
C5_NotFoundCorrect ==
    Returned("get") =>
        LET c == arg[Caller]
            r == ret[Caller]
            m == MapOf(c.lvl, c.mgr)
            kind == IF c.lvl = LvlUnderlying THEN "UnderlyingNotFound"
                    ELSE IF c.lvl = LvlExpiration THEN "ExpirationNotFound"
                    ELSE "StrikeNotFound"
        IN /\ (~r.ok /\ r.err = kind) <=> ~SkipContainsKey(m, c.key)
           /\ r.ok <=> SkipContainsKey(m, c.key)
           /\ r.ok => /\ \E i \in DOMAIN m : m[i].key = c.key /\ m[i].value = r.val
                      /\ KeyOfObject(c.lvl, r.val) = c.key

\* A get has failed on a map that holds another key, at the strike level.
C5_Witness ==
    /\ Returned("get")
    /\ ~ret[Caller].ok
    /\ arg[Caller].lvl = LvlStrike
    /\ SkipLen(MapOf(LvlStrike, arg[Caller].mgr)) > 0

\* C6 (read-only operations never mutate the registry): a call of get, contains,
\* len, is_empty, strike_prices, underlying_symbols, atm_strike, total_* or stats,
\* failing or not, leaves every map, every entry's instance and every leaf's
\* orders unchanged.
ReadOps ==
    {"get", "contains", "len", "is_empty", "strike_prices", "underlying_symbols",
     "atm_strike", "total_order_count", "total_strike_count",
     "total_expiration_count", "stats"}

C6_Step ==
    (\E op \in ReadOps : StartsCall(op)) =>
        /\ UNCHANGED registry
        /\ \A lvl \in Levels : \A mgr \in Managers(lvl) :
               SkipKeys(MapOfNext(lvl, mgr)) = SkipKeys(MapOf(lvl, mgr))

C6_ReadsDoNotMutate == [][C6_Step]_vars

\* A get of a key that is not registered has failed while an order rests in a
\* leaf, and the key is still not registered.
C6_Witness ==
    /\ Returned("get")
    /\ ~ret[Caller].ok
    /\ ~SkipContainsKey(MapOf(arg[Caller].lvl, arg[Caller].mgr), arg[Caller].key)
    /\ placed > 0

\* C7 (removal result): remove(k) returns true exactly when k was registered
\* immediately before the call; afterwards contains(k) is false, len() is one
\* less exactly when true was returned and every other key keeps its entry; a
\* remove(k) repeated at once returns false and changes nothing.
C7_Step ==
    LET c == arg'[Caller]
        m == MapOf(c.lvl, c.mgr)
        n == MapOfNext(c.lvl, c.mgr)
        r == ret'[Caller]
    IN StartsCall("remove") =>
        /\ pc'[Caller] = "done"
        /\ r.ok /\ r.flag = SkipContainsKey(m, c.key)
        /\ ~SkipContainsKey(n, c.key)
        /\ SkipLen(n) = SkipLen(m) - (IF r.flag THEN 1 ELSE 0)
        /\ \A i \in DOMAIN m : m[i].key # c.key =>
               SkipContainsKey(n, m[i].key) /\ SkipGet(n, m[i].key) = m[i].value
        /\ \A i \in DOMAIN n : SkipContainsKey(m, n[i].key)
        /\ Returned("remove") /\ arg[Caller] = c =>
               /\ ~r.flag
               /\ n = m
               /\ \A lvl \in Levels : \A mgr \in Managers(lvl) : MapOfNext(lvl, mgr) = MapOf(lvl, mgr)

C7_RemovalResult == [][C7_Step]_vars

\* A remove has returned true for a key that was not the last of its map, and
\* another key is still registered after it.
C7_Witness ==
    /\ Returned("remove")
    /\ ret[Caller].flag
    /\ \E i \in DOMAIN MapOf(arg[Caller].lvl, arg[Caller].mgr) :
           MapOf(arg[Caller].lvl, arg[Caller].mgr)[i].key > arg[Caller].key

\* C8 (a handle survives removal): a remove at any level leaves every object
\* constructed so far in existence with the child map and the leaves it had,
\* except for the one entry taken out of the map; and every StrikeOrderBook, also
\* one taken out of its map or below a removed ancestor, still accepts an order.
Detached(s) ==
    \/ sBooks[s].unlinked
    \/ eBooks[sBooks[s].owner].unlinked
    \/ uBooks[eBooks[sBooks[s].owner].owner].unlinked

C8_Step ==
    LET c == arg'[Caller]
    IN StartsCall("remove") =>
        /\ Len(uBooks') = Len(uBooks) /\ Len(eBooks') = Len(eBooks) /\ Len(sBooks') = Len(sBooks)
        /\ \A s \in DOMAIN sBooks :
               /\ sBooks'[s].call = sBooks[s].call
               /\ sBooks'[s].put = sBooks[s].put
               /\ sBooks'[s].strike = sBooks[s].strike
        /\ \A e \in DOMAIN eBooks :
               (c.lvl # LvlStrike \/ c.mgr # e) => eBooks'[e].strikes = eBooks[e].strikes
        /\ \A u \in DOMAIN uBooks :
               (c.lvl # LvlExpiration \/ c.mgr # u) => uBooks'[u].expirations = uBooks[u].expirations

C8_Usable ==
    \A s \in DOMAIN sBooks :
        (pc[Caller] = "idle" /\ placed < MaxOrders) =>
            /\ ENABLED AddLimitOrder(Caller, s, "call", "buy")
            /\ ENABLED AddLimitOrder(Caller, s, "put", "sell")

C8_HandleSurvivesRemoval == [][C8_Step /\ C8_Usable']_vars

\* A remove has just taken an entry out while a StrikeOrderBook that is no
\* longer reachable from the root holds a resting order.
C8_Witness ==
    /\ Returned("remove")
    /\ ret[Caller].flag
    /\ \E s \in DOMAIN sBooks :
           /\ Detached(s)
           /\ sBooks[s].call.bids + sBooks[s].call.asks + sBooks[s].put.bids + sBooks[s].put.asks > 0

\* C9 (sorted enumeration): strike_prices() and underlying_symbols() return
\* exactly the keys currently registered in their map, in strictly ascending
\* order, whatever the order of the get_or_create and remove calls before.
StrictlyAscending(l) == \A i, j \in DOMAIN l : i < j => l[i] < l[j]

C9_SortedEnumeration ==
    (Returned("strike_prices") \/ Returned("underlying_symbols")) =>
        LET l == ret[Caller].list
            m == MapOf(arg[Caller].lvl, arg[Caller].mgr)
        IN /\ StrictlyAscending(l)
           /\ \A k \in Symbols \cup Strikes :
                  (\E i \in DOMAIN l : l[i] = k) <=> SkipContainsKey(m, k)
           /\ \A i \in DOMAIN l : l[i] \in Symbols \cup Strikes

\* underlying_symbols() has listed three symbols that were created in the order
\* 3, 1, 2.
C9_Witness ==
    /\ Returned("underlying_symbols")
    /\ Len(ret[Caller].list) = 3
    /\ Len(uBooks) = 3
    /\ uBooks[1].underlying = 3
    /\ uBooks[2].underlying = 1

\* C10 (ATM correctness): on a non-empty manager atm_strike(spot) returns a
\* registered strike s such that no registered strike t has |t - spot| < |s - spot|,
\* and returns spot itself when spot is registered.
Distance(a, b) == IF a >= b THEN a - b ELSE b - a

C10_AtmCorrect ==
    (Returned("atm_strike") /\ MapOf(LvlStrike, arg[Caller].mgr) # <<>>) =>
        LET m == MapOf(LvlStrike, arg[Caller].mgr)
            spot == arg[Caller].key
            r == ret[Caller]
        IN /\ r.ok
           /\ SkipContainsKey(m, r.val)
           /\ \A i \in DOMAIN m : Distance(m[i].key, spot) >= Distance(r.val, spot)
           /\ SkipContainsKey(m, spot) => r.val = spot

\* C11 (ATM tie-break): when a registered strike below spot and a registered
\* strike above spot are equally distant from spot and no registered strike is
\* closer, atm_strike(spot) returns the lower of the two.
C11_AtmTieBreak ==
    Returned("atm_strike") =>
        LET m == MapOf(LvlStrike, arg[Caller].mgr)
            spot == arg[Caller].key
            r == ret[Caller]
        IN \A i, j \in DOMAIN m :
               ( /\ m[i].key < spot /\ spot < m[j].key
                 /\ spot - m[i].key = m[j].key - spot
                 /\ \A n \in DOMAIN m : Distance(m[n].key, spot) >= spot - m[i].key )
               => r.ok /\ r.val = m[i].key

\* C12 (ATM on empty data): atm_strike(spot) fails with NoDataAvailable exactly
\* when the manager has no registered strike, and returns Ok for every spot on
\* a manager that has one.
C12_AtmNoData ==
    Returned("atm_strike") =>
        LET m == MapOf(LvlStrike, arg[Caller].mgr)
            r == ret[Caller]
        IN /\ (~r.ok /\ r.err = "NoDataAvailable") <=> m = <<>>
           /\ m # <<>> => r.ok

\* ---------------------------------------------------------------------
\* Sums over the registered part of the tree.

\* The sum of the values of a function with a finite domain.
RECURSIVE SumFn(_)
SumFn(f) ==
    IF DOMAIN f = {} THEN 0
    ELSE LET x == CHOOSE y \in DOMAIN f : TRUE
         IN f[x] + SumFn([y \in DOMAIN f \ {x} |-> f[y]])

\* The objects registered in map m.
RegisteredIn(m) == {m[i].value : i \in DOMAIN m}

\* The strikes registered under a registered expiration of a registered underlying.
ReachableStrikes ==
    {x \in DOMAIN sBooks :
        \E u \in RegisteredIn(underlyings) : \E e \in RegisteredIn(uBooks[u].expirations) :
            x \in RegisteredIn(eBooks[e].strikes)}

\* The orders resting in the call and put leaves of strike x.
LeafOrders(x) ==
    sBooks[x].call.bids + sBooks[x].call.asks + sBooks[x].put.bids + sBooks[x].put.asks

C14_StatsAreSums ==
    Returned("stats") =>
        LET c == arg[Caller]
            l == ret[Caller].list
        IN IF c.lvl = LvlStrike THEN
               LET R == RegisteredIn(eBooks[c.mgr].strikes)
               IN l = <<eBooks[c.mgr].expiration, Cardinality(R), SumFn([x \in R |-> OrderCount(x)])>>
           ELSE IF c.lvl = LvlExpiration THEN
               LET R == RegisteredIn(uBooks[c.mgr].expirations)
               IN l = <<uBooks[c.mgr].underlying, Cardinality(R),
                        SumFn([e \in R |-> StrikeCount(e)]),
                        SumFn([e \in R |-> StrikeTotalOrderCount(e)])>>
           ELSE
               LET R == RegisteredIn(underlyings)
               IN l = <<Cardinality(R),
                        SumFn([u \in R |-> ExpirationManagerStats(u)[2]]),
                        SumFn([u \in R |-> ExpirationManagerStats(u)[3]]),
                        SumFn([u \in R |-> ExpirationManagerStats(u)[4]])>>

\* The root's stats have been read with both underlyings registered after a
\* strike was removed from one of them.
C14_Witness ==
    /\ Returned("stats") /\ arg[Caller].lvl = LvlUnderlying
    /\ ret[Caller].list[1] = 2 /\ ret[Caller].list[2] = 2 /\ ret[Caller].list[3] = 2
    /\ ret[Caller].list[4] > 0
    /\ \E x \in DOMAIN sBooks : sBooks[x].unlinked

\* C15 (upward propagation of an order): a limit order that comes to rest in a
\* leaf of a strike raises by exactly one the order_count of that strike, the
\* total_order_count of its chain when the strike is registered there, that of its
\* underlying when the expiration is registered too, and the root's total_orders
\* when the underlying is registered as well; the counts of underlyings,
\* expirations and strikes and the order counts of all other strikes stay.
C15_Step ==
    placed' = placed + 1 =>
        \E x \in DOMAIN sBooks :
            LET e == sBooks[x].owner
                u == eBooks[e].owner
                inChain == x \in RegisteredIn(eBooks[e].strikes)
                inUnderlying == inChain /\ e \in RegisteredIn(uBooks[u].expirations)
                inRoot == inUnderlying /\ u \in RegisteredIn(underlyings)
            IN /\ OrderCount(x)' = OrderCount(x) + 1
               /\ \A y \in DOMAIN sBooks \ {x} : OrderCount(y)' = OrderCount(y)
               /\ inChain => StrikeTotalOrderCount(e)' = StrikeTotalOrderCount(e) + 1
               /\ inUnderlying => ExpirationTotalOrderCount(u)' = ExpirationTotalOrderCount(u) + 1
               /\ inRoot => GlobalStats'[4] = GlobalStats[4] + 1
               /\ \A i \in 1 .. 3 : GlobalStats'[i] = GlobalStats[i]
               /\ \A v \in DOMAIN uBooks :
                      /\ ExpirationManagerStats(v)'[2] = ExpirationManagerStats(v)[2]
                      /\ ExpirationManagerStats(v)'[3] = ExpirationManagerStats(v)[3]
               /\ \A d \in DOMAIN eBooks : StrikeCount(d)' = StrikeCount(d)

C15_UpwardPropagation == [][C15_Step]_vars

\* An order rests in the put leaf of a strike that is reachable from the root,
\* next to another registered strike.
C15_Witness ==
    /\ placed = 1
    /\ GlobalStats[4] = 1
    /\ \E x, y \in ReachableStrikes :
           x # y /\ LeafOrderCount(sBooks[x].put) = 1 /\ OrderCount(y) = 0

\* C16 (is_fully_quoted): is_fully_quoted() is true exactly when the call leaf
\* holds a bid and an ask and the put leaf holds a bid and an ask; so it is false
\* for a strike without orders, when only one leaf is two-sided, and when each
\* leaf holds orders on one side only.
C16_FullyQuoted ==
    Returned("is_fully_quoted") =>
        LET b == sBooks[arg[Caller].mgr]
            r == ret[Caller]
        IN /\ r.flag <=> (b.call.bids > 0 /\ b.call.asks > 0 /\ b.put.bids > 0 /\ b.put.asks > 0)
           /\ (b.call = EmptyLeaf /\ b.put = EmptyLeaf) => ~r.flag
           /\ (b.call.bids = 0 \/ b.call.asks = 0) => ~r.flag
           /\ (b.put.bids = 0 \/ b.put.asks = 0) => ~r.flag

\* is_fully_quoted() has returned false on a strike whose call leaf is two-sided
\* and whose put leaf holds bids only.
C16_Witness ==
    /\ Returned("is_fully_quoted")
    /\ ~ret[Caller].flag
    /\ IsTwoSided(sBooks[arg[Caller].mgr].call)
    /\ sBooks[arg[Caller].mgr].put.bids > 0
    /\ sBooks[arg[Caller].mgr].put.asks = 0

\* C17 (strike-level counts and clear): order_count() is the sum of the two
\* leaves' order counts; is_empty() holds exactly when both leaves are empty;
\* after clear() both leaves are empty and order_count() is 0, and the strike is
\* still registered in its manager, whose strike_count is unchanged.
C17_Reads ==
    /\ Returned("order_count") =>
           ret[Caller].val = LeafOrderCount(sBooks[arg[Caller].mgr].call)
                             + LeafOrderCount(sBooks[arg[Caller].mgr].put)
    /\ Returned("book_is_empty") =>
           (ret[Caller].flag <=> ( /\ LeafOrderCount(sBooks[arg[Caller].mgr].call) = 0
                                   /\ LeafOrderCount(sBooks[arg[Caller].mgr].put) = 0 ))

C17_Step ==
    StartsCall("clear") =>
        LET x == arg'[Caller].mgr
        IN /\ pc'[Caller] = "done"
           /\ sBooks'[x].call = EmptyLeaf /\ sBooks'[x].put = EmptyLeaf
           /\ LeafOrderCount(sBooks'[x].call) + LeafOrderCount(sBooks'[x].put) = 0
           /\ LeafIsEmpty(sBooks'[x].call) /\ LeafIsEmpty(sBooks'[x].put)
           /\ UNCHANGED <<underlyings, uBooks, eBooks>>
           /\ \A e \in DOMAIN eBooks : StrikeCount(e)' = StrikeCount(e)
           /\ \A e \in DOMAIN eBooks :
                  x \in RegisteredIn(eBooks[e].strikes) => x \in RegisteredIn(eBooks'[e].strikes)
           /\ sBooks'[x].strike = sBooks[x].strike /\ sBooks'[x].unlinked = sBooks[x].unlinked

C17_CountsAndClear == [][C17_Step /\ C17_Reads']_vars

\* clear() has returned on a registered strike after an order was placed in it.
C17_Witness ==
    /\ Returned("clear")
    /\ placed = 1
    /\ arg[Caller].mgr \in ReachableStrikes
    /\ sBooks[arg[Caller].mgr].call = EmptyLeaf /\ sBooks[arg[Caller].mgr].put = EmptyLeaf

\* C18 (get_or_create never fails): get_or_create at every level can be called
\* with every key in every reachable state and returns a handle to an instance
\* constructed for that key, never an error; the only operations that return an
\* error are get (the NotFound kind of its level) and atm_strike (NoDataAvailable).
C18_State ==
    /\ Returned("get_or_create") =>
           /\ ret[Caller].ok
           /\ ret[Caller].val \in DOMAIN HeapOf(arg[Caller].lvl)
           /\ KeyOfObject(arg[Caller].lvl, ret[Caller].val) = arg[Caller].key
           /\ HeapOf(arg[Caller].lvl)[ret[Caller].val].owner = arg[Caller].mgr
    /\ (pc[Caller] = "done" /\ ~ret[Caller].ok) =>
           \/ arg[Caller].op = "get"
                  /\ ret[Caller].err \in {"UnderlyingNotFound", "ExpirationNotFound", "StrikeNotFound"}
           \/ arg[Caller].op = "atm_strike" /\ ret[Caller].err = "NoDataAvailable"
    /\ pc[Caller] = "insert" => ENABLED GetOrCreateInsert(Caller)
    /\ (pc[Caller] = "idle" /\ Allocated < MaxObjects) =>
           \A lvl \in Levels : \A mgr \in Managers(lvl) :
               \A k \in (IF lvl = LvlUnderlying THEN Symbols
                         ELSE IF lvl = LvlExpiration THEN Expirations ELSE Strikes) :
                   ENABLED GetOrCreateLookup(Caller, lvl, mgr, k)

C18_Step ==
    StartsCall("get_or_create") =>
        \/ pc'[Caller] = "insert"
        \/ pc'[Caller] = "done" /\ ret'[Caller].ok

C18_GetOrCreateNeverFails == [][C18_Step /\ C18_State']_vars

\* get_or_create_strike has returned a new strike through the handle of an
\* expiration that was removed from its underlying.
C18_Witness ==
    /\ Returned("get_or_create")
    /\ arg[Caller].lvl = LvlStrike
    /\ eBooks[arg[Caller].mgr].unlinked
    /\ ret[Caller].val = Len(sBooks)

\* C19 (read path mirrors write path): for a strike instance X that the descent
\* get_or_create(s), get_or_create_expiration(e), get_or_create_strike(k)
\* returned, as long as no remove took X, its expiration or its underlying out,
\* the descent get(s), get_expiration(e), get_strike(k) succeeds at every level
\* and returns X.
C19_ReadMirrorsWrite ==
    pc[Caller] # "insert" =>
        \A x \in DOMAIN sBooks :
            LET e == sBooks[x].owner
                u == eBooks[e].owner
            IN (~sBooks[x].unlinked /\ ~eBooks[e].unlinked /\ ~uBooks[u].unlinked) =>
                   /\ GetResult(LvlUnderlying, underlyings, uBooks[u].underlying) = Handle("get", LvlUnderlying, u)
                   /\ GetResult(LvlExpiration, uBooks[u].expirations, eBooks[e].expiration) = Handle("get", LvlExpiration, e)
                   /\ GetResult(LvlStrike, eBooks[e].strikes, sBooks[x].strike) = Handle("get", LvlStrike, x)
                   /\ Descent(uBooks[u].underlying, eBooks[e].expiration, sBooks[x].strike) = Handle("get", LvlStrike, x)

\* A strike created by a descent is still on its path after another strike of
\* the same expiration was removed, and get_strike has just returned it.
C19_Witness ==
    /\ Returned("get") /\ arg[Caller].lvl = LvlStrike /\ ret[Caller].ok
    /\ ret[Caller].val \in ReachableStrikes
    /\ \E y \in DOMAIN sBooks : sBooks[y].unlinked /\ sBooks[y].owner = sBooks[ret[Caller].val].owner

\* C20 (errors name the offending key and level): a failed get carries the
\* requested key with the NotFound kind of its level (the expiration as rendered
\* by to_string), and the descent get(s), get_expiration(e), get_strike(k) fails
\* with the kind of the first level at which the key is absent.
EntryOf(m, k) == m[CHOOSE i \in DOMAIN m : m[i].key = k].value

C20_ErrorsNameKeyAndLevel ==
    /\ (Returned("get") /\ ~ret[Caller].ok) =>
           LET c == arg[Caller]
           IN IF c.lvl = LvlUnderlying
              THEN ret[Caller].err = "UnderlyingNotFound" /\ ret[Caller].val = c.key
              ELSE IF c.lvl = LvlExpiration
              THEN ret[Caller].err = "ExpirationNotFound" /\ ret[Caller].val = <<"to_string", c.key>>
              ELSE ret[Caller].err = "StrikeNotFound" /\ ret[Caller].val = c.key
    /\ pc[Caller] # "insert" =>
           \A s \in Symbols, e \in Expirations, k \in Strikes :
               LET d == Descent(s, e, k)
               IN IF \A i \in DOMAIN underlyings : underlyings[i].key # s
                  THEN ~d.ok /\ d.err = "UnderlyingNotFound" /\ d.val = s
                  ELSE LET em == uBooks[EntryOf(underlyings, s)].expirations
                       IN IF \A i \in DOMAIN em : em[i].key # e
                          THEN ~d.ok /\ d.err = "ExpirationNotFound" /\ d.val = <<"to_string", e>>
                          ELSE LET sm == eBooks[EntryOf(em, e)].strikes
                               IN IF \A i \in DOMAIN sm : sm[i].key # k
                                  THEN ~d.ok /\ d.err = "StrikeNotFound" /\ d.val = k
                                  ELSE d.ok /\ d.val = EntryOf(sm, k)

\* get_expiration has failed on a registered underlying whose expiration was
\* removed while its strikes are still registered below the removed expiration.
C20_Witness ==
    /\ Returned("get") /\ ~ret[Caller].ok
    /\ arg[Caller].lvl = LvlExpiration
    /\ arg[Caller].mgr \in RegisteredIn(underlyings)
    /\ \E e \in DOMAIN eBooks :
           /\ eBooks[e].unlinked /\ eBooks[e].owner = arg[Caller].mgr
           /\ eBooks[e].expiration = arg[Caller].key
           /\ eBooks[e].strikes # <<>>

\* C25 (ATM distance over the whole key range): for every registered strike and
\* every spot of the unsigned type, the key atm_strike minimizes equals the true
\* distance |strike - spot|, the subtraction does not overflow, and the call
\* returns a registered strike at minimal true distance without panicking.
C25_AtmWholeRange ==
    Returned("atm_strike") =>
        LET m == MapOf(LvlStrike, arg[Caller].mgr)
            spot == arg[Caller].key
            r == ret[Caller]
        IN /\ \A i \in DOMAIN m :
                  /\ ~SubOverflows(AsSigned(m[i].key), AsSigned(spot))
                  /\ AtmKey(m[i].key, spot) = Distance(m[i].key, spot)
           /\ r.err # "panic"
           /\ m # <<>> =>
                  /\ r.ok
                  /\ \A i \in DOMAIN m : Distance(r.val, spot) <= Distance(m[i].key, spot)

\* C27 (removal is atomic under concurrency): a remove(k) returns true exactly
\* when this very call took the entry of k out of the map, so that the remove
\* calls that returned true for k are as many as the instances taken out of the
\* map under k, never more than were registered under k; of two concurrent
\* remove(k) calls on a key registered once, one returns true and the other false.
HeapOfNext(lvl) ==
    IF lvl = LvlUnderlying THEN uBooks'
    ELSE IF lvl = LvlExpiration THEN eBooks'
    ELSE sBooks'

\* The instances of key k that remove calls have taken out of manager mgr, in heap h.
RemovedCount(lvl, mgr, k, h) ==
    Cardinality({x \in DOMAIN h :
        /\ h[x].owner = mgr /\ h[x].unlinked
        /\ k = (IF lvl = LvlUnderlying THEN h[x].underlying
                ELSE IF lvl = LvlExpiration THEN h[x].expiration ELSE h[x].strike)})

C27_Step ==
    \A t \in Threads :
        ( /\ pc'[t] = "done" /\ arg'[t].op = "remove"
          /\ (pc[t] # "done" \/ arg[t] # arg'[t] \/ ret[t] # ret'[t]) ) =>
            LET c == arg'[t]
                before == RemovedCount(c.lvl, c.mgr, c.key, HeapOf(c.lvl))
                after == RemovedCount(c.lvl, c.mgr, c.key, HeapOfNext(c.lvl))
            IN /\ ret'[t].flag <=> SkipContainsKey(MapOf(c.lvl, c.mgr), c.key)
               /\ after = before + (IF ret'[t].flag THEN 1 ELSE 0)
               /\ ~SkipContainsKey(MapOfNext(c.lvl, c.mgr), c.key)

C27_State ==
    \A lvl \in Levels : \A mgr \in Managers(lvl) : \A k \in RaceStrikes :
        LET won == {t \in Threads :
                       /\ pc[t] = "done" /\ ret[t].flag
                       /\ arg[t] = [op |-> "remove", lvl |-> lvl, mgr |-> mgr, key |-> k]}
        IN /\ Cardinality(won) <= RemovedCount(lvl, mgr, k, HeapOf(lvl))
           /\ RemovedCount(lvl, mgr, k, HeapOf(lvl)) <= Cardinality(ObjectsFor(lvl, mgr, k))

C27_RemovalAtomic == [][C27_Step /\ C27_State']_vars

\* Both threads have returned from remove(k) on the same manager, where k was
\* registered once: one with true, the other with false.
C27_Witness ==
    \E t, u \in Threads :
        /\ t # u
        /\ pc[t] = "done" /\ pc[u] = "done"
        /\ arg[t].op = "remove" /\ arg[u] = arg[t]
        /\ arg[t].lvl = LvlStrike
        /\ Cardinality(ObjectsFor(arg[t].lvl, arg[t].mgr, arg[t].key)) = 1
        /\ ret[t].flag /\ ~ret[u].flag

C23_State ==
    /\ \A s \in DOMAIN sBooks :
           /\ CallArc(s) = CallLeaf(s)
           /\ GetLeaf(s, "call") = CallLeaf(s) /\ GetArc(s, "call") = CallLeaf(s)
           /\ PutArc(s) = PutLeaf(s)
           /\ GetLeaf(s, "put") = PutLeaf(s) /\ GetArc(s, "put") = PutLeaf(s)
           /\ CallLeaf(s) # PutLeaf(s)
    /\ Returned("leaf_order_count") =>
           ret[Caller].val =
               (IF arg[Caller].key = 1
                THEN sBooks[arg[Caller].mgr].call.bids + sBooks[arg[Caller].mgr].call.asks
                ELSE sBooks[arg[Caller].mgr].put.bids + sBooks[arg[Caller].mgr].put.asks)

C23_Step ==
    /\ StartsCall("add_limit_order") =>
           LET x == arg'[Caller].mgr
           IN IF arg'[Caller].key = 1
              THEN /\ sBooks'[x].put = sBooks[x].put
                   /\ sBooks'[x].call.bids + sBooks'[x].call.asks
                          = sBooks[x].call.bids + sBooks[x].call.asks + 1
              ELSE /\ sBooks'[x].call = sBooks[x].call
                   /\ sBooks'[x].put.bids + sBooks'[x].put.asks
                          = sBooks[x].put.bids + sBooks[x].put.asks + 1
    /\ StartsCall("leaf_clear") =>
           LET x == arg'[Caller].mgr
           IN IF arg'[Caller].key = 1
              THEN sBooks'[x].put = sBooks[x].put /\ sBooks'[x].call = EmptyLeaf
              ELSE sBooks'[x].call = sBooks[x].call /\ sBooks'[x].put = EmptyLeaf

C23_LeavesBound == [][C23_Step /\ C23_State']_vars

\* The put leaf was cleared while the call leaf holds orders on both sides and
\* the put leaf had held some.
C23_Witness ==
    /\ Returned("leaf_clear") /\ arg[Caller].key = 2
    /\ sBooks[arg[Caller].mgr].call.bids = MaxLoad
    /\ sBooks[arg[Caller].mgr].call.asks > 0
    /\ sBooks[arg[Caller].mgr].put = EmptyLeaf

\* C24 (per-side Greeks cache): call_greeks() and put_greeks() are None from
\* construction until the first update of their side; update_call_greeks sets
\* the call side only and update_put_greeks the put side only, to the value
\* given; no update changes a leaf, and no other operation changes the Greeks.
C24_State ==
    /\ Returned("call_greeks") => ret[Caller].val = sBooks[arg[Caller].mgr].call_greeks
    /\ Returned("put_greeks") => ret[Caller].val = sBooks[arg[Caller].mgr].put_greeks

C24_Step ==
    \A s \in DOMAIN sBooks :
        /\ IF StartsCall("update_call_greeks") /\ arg'[Caller].mgr = s
           THEN /\ sBooks'[s].call_greeks = arg'[Caller].key
                /\ sBooks'[s].call_greeks # Nil
                /\ sBooks'[s].put_greeks = sBooks[s].put_greeks
                /\ sBooks'[s].call = sBooks[s].call /\ sBooks'[s].put = sBooks[s].put
           ELSE sBooks'[s].call_greeks = sBooks[s].call_greeks
        /\ IF StartsCall("update_put_greeks") /\ arg'[Caller].mgr = s
           THEN /\ sBooks'[s].put_greeks = arg'[Caller].key
                /\ sBooks'[s].put_greeks # Nil
                /\ sBooks'[s].call_greeks = sBooks[s].call_greeks
                /\ sBooks'[s].call = sBooks[s].call /\ sBooks'[s].put = sBooks[s].put
           ELSE sBooks'[s].put_greeks = sBooks[s].put_greeks

C24_GreeksCache == [][C24_Step /\ C24_State']_vars

\* put_greeks() has returned None on a book whose call side was updated and whose
\* leaves hold orders.
C24_Witness ==
    /\ Returned("put_greeks") /\ ret[Caller].val = Nil
    /\ sBooks[arg[Caller].mgr].call_greeks \in Greeks
    /\ sBooks[arg[Caller].mgr].call.bids > 0
    /\ sBooks[arg[Caller].mgr].put.asks > 0

\* C21 (facades are pure delegation): every operation of an ExpirationOrderBook
\* and of its OptionChainOrderBook returns what the same operation returns on
\* the StrikeOrderBookManager of that book, computed here from the book's own
\* strike map; and a strike that get_or_create_strike returned is the instance
\* get_strike returns through each of the three views.
C21_Expected(op, e, k) ==
    LET m == eBooks[e].strikes
        here == {i \in DOMAIN m : m[i].key = k}
    IN IF op = "get_strike"
       THEN IF here = {} THEN Err("get", LvlStrike, "StrikeNotFound", k)
            ELSE Handle("get", LvlStrike, m[CHOOSE i \in here : TRUE].value)
       ELSE IF op = "strike_count" THEN Count("len", LvlStrike, Len(m))
       ELSE IF op = "is_empty" THEN Bool("is_empty", LvlStrike, m = <<>>)
       ELSE IF op = "strike_prices" THEN List("strike_prices", LvlStrike, [i \in DOMAIN m |-> m[i].key])
       ELSE IF op = "total_order_count"
       THEN Count("total_order_count", LvlStrike,
                  SumFn([x \in RegisteredIn(m) |-> LeafOrders(x)]))
       ELSE AtmStrikeResult(m, k)

C21_FacadesDelegate ==
    /\ \A view \in Views, op \in FacadeOps :
           Returned(ViewOp(view, op)) =>
               ret[Caller] = C21_Expected(op, arg[Caller].mgr, arg[Caller].key)
    /\ pc[Caller] # "insert" =>
           \A e \in DOMAIN eBooks, op \in FacadeOps, k \in Spots :
               /\ ExpirationResult(op, e, k) = C21_Expected(op, e, k)
               /\ ChainResult(op, ChainOf(e), k) = C21_Expected(op, e, k)
    /\ (Returned("get_or_create") /\ arg[Caller].lvl = LvlStrike
            /\ ~sBooks[ret[Caller].val].unlinked) =>
           \A view \in Views :
               ViewResult(view, "get_strike", arg[Caller].mgr, arg[Caller].key)
                   = Handle("get", LvlStrike, ret[Caller].val)

\* total_order_count through the expiration view has returned 1 on the second
\* expiration book of an underlying, whose first book was removed.
C21_Witness ==
    /\ Returned(ViewOp("expiration", "total_order_count"))
    /\ arg[Caller].mgr = 2 /\ eBooks[1].unlinked
    /\ ret[Caller].val = 1

\* C22 (stats is a point-in-time approximation): stats() reads its fields at
\* different moments.  While nothing is removed each returned count lies between
\* the tree's count when the call began and its count when the call returned;
\* the witness is a call whose returned struct is neither of the two.
C22_StatsApproximate ==
    \A t \in Threads :
        (pc[t] = "done" /\ arg[t].op = "stats") =>
            /\ Len(ret[t].list) = 4
            /\ ret[t].list = scan[t].acc
            /\ (\A x \in DOMAIN sBooks : ~sBooks[x].unlinked) =>
                   \A i \in 1 .. 4 :
                       /\ scan[t].start[i] <= ret[t].list[i]
                       /\ ret[t].list[i] <= scan[t].end[i]

\* stats() has returned counts that the tree had neither when the call began nor
\* when it returned: a strike was created and an order placed between two reads.
C22_Witness ==
    \E t \in Threads :
        /\ pc[t] = "done" /\ arg[t].op = "stats"
        /\ ret[t].list # scan[t].start
        /\ ret[t].list # scan[t].end
        /\ scan[t].end = GlobalStats
        /\ \A x \in DOMAIN sBooks : ~sBooks[x].unlinked

\* C26 (iteration is safe under concurrent mutation): strike_prices() running
\* while another thread creates and removes strikes of the same map returns a
\* strictly ascending sequence without duplicates that contains every key
\* registered at every step of the call and only keys registered at some step.
C26_IterationSafe ==
    \A t \in Threads :
        (pc[t] = "done" /\ arg[t].op = "strike_prices") =>
            LET l == ret[t].list
                got == {l[i] : i \in DOMAIN l}
            IN /\ \A i, j \in DOMAIN l : i < j => l[i] < l[j]
               /\ scan[t].always \subseteq got
               /\ got \subseteq scan[t].ever

\* strike_prices() has returned a listing that differs from the keys registered
\* when it began and from the keys registered now: during the call one strike
\* was removed and another created.
C26_Witness ==
    \E t \in Threads :
        /\ pc[t] = "done" /\ arg[t].op = "strike_prices"
        /\ Len(ret[t].list) = 2
        /\ scan[t].always # scan[t].ever
        /\ {ret[t].list[i] : i \in DOMAIN ret[t].list} # scan[t].always
        /\ {ret[t].list[i] : i \in DOMAIN ret[t].list} # KeySet(eBooks[arg[t].mgr].strikes)
        /\ \E x \in DOMAIN sBooks : sBooks[x].unlinked
        /\ Len(sBooks) > Cardinality(scan[t].ever) - 1

\* C28 (no operation blocks on another thread): a thread inside a call can take
\* its next step in every reachable state, whatever the other thread is doing,
\* and under fair scheduling every call that has started returns.
C28_NoBlocking ==
    /\ [](\A t \in Threads :
            /\ pc[t] = "insert" => ENABLED GetOrCreateInsert(t)
            /\ (pc[t] = "scan" /\ arg[t].op = "strike_prices") => ENABLED StrikePricesNext(t)
            /\ (pc[t] = "scan" /\ arg[t].op = "stats") => ENABLED StatsNext(t))
    /\ \A t \in Threads : (pc[t] \in {"insert", "scan"}) ~> (pc[t] = "done")

\* Both threads are inside a call at once: one between the lookup and the insert
\* of get_or_create, the other in the middle of an iteration over the same map.
C28_Witness ==
    /\ pc[Mutator] = "insert"
    /\ pc[Caller] = "scan" /\ arg[Caller].op = "strike_prices"
    /\ arg[Caller].mgr = arg[Mutator].mgr
    /\ scan[Caller].acc # <<>>

\* C30 (no lost orders): when threads that only descend with get_or_create and
\* place resting orders through the handles they obtained have all finished,
\* root.stats().total_orders is the number of orders placed and
\* root.stats().total_strikes the number of distinct (s, e, k) descended to.
C30_NoLostOrders ==
    (\A t \in Threads : pc[t] # "insert") =>
        /\ GlobalStats[4] = placed
        /\ GlobalStats[3] =
               Cardinality({<<sBooks[x].underlying, sBooks[x].expiration, sBooks[x].strike>> :
                               x \in DOMAIN sBooks})

\* ------------------------------------------------------------------
\* stats() of the root manager while another thread descends and places orders:
\* the registry starts empty, the mutator creates underlyings, expirations and
\* strikes and places resting orders through the strike handles it obtained, and
\* nothing is removed.
NextStats ==
    \/ UnderlyingManagerGetOrCreate(Mutator, RaceSymbols)
    \/ ExpirationManagerGetOrCreate(Mutator, RaceExpirations)
    \/ StrikeManagerGetOrCreate(Mutator, RaceStrikes)
    \/ GetOrCreateInsert(Mutator)
    \/ \E style \in OptionStyles, side \in {"buy", "sell"} :
           AddLimitOrderThroughHandle(Mutator, style, side)
    \/ StatsBegin(Caller)
    \/ StatsNext(Caller)
    \/ \E t \in Threads : ScanContinue(t)

SpecStats == Init /\ [][NextStats]_vars

AtmStrikeBegin(t, e, spot) ==
    /\ e \in DOMAIN eBooks
    /\ Call(t, "atm_strike", LvlStrike, e, spot)
    /\ pc' = [pc EXCEPT ![t] = "scan"]
    /\ scan' = [scan EXCEPT ![t] = [NoScan EXCEPT !.always = KeySet(eBooks[e].strikes),
                                                  !.ever = KeySet(eBooks[e].strikes)]]
    /\ UNCHANGED <<ret, underlyings, uBooks, eBooks, sBooks, placed, overflowChecks>>

\* The keys yielded by the iterator, as the listing min_by_key runs over.
Yielded(acc) == [i \in DOMAIN acc |-> Entry(acc[i], Nil)]

\* An iterator step that ends the scan empty-handed when the entry it stands on
\* has been removed.
AtmStrikeNextGivingUp(t) ==
    /\ pc[t] = "scan" /\ arg[t].op = "atm_strike"
    /\ LET K == KeySet(eBooks[arg[t].mgr].strikes)
           rest == {x \in K : x > scan[t].cursor}
           hist == [scan[t] EXCEPT !.always = @ \cap K, !.ever = @ \cup K]
       IN IF scan[t].cursor # Nil /\ scan[t].cursor \notin K
          THEN /\ scan' = [scan EXCEPT ![t] = hist]
               /\ Return(t, AtmStrikeResult(<<>>, arg[t].key))
          ELSE IF rest # {}
          THEN LET k == CHOOSE x \in rest : \A y \in rest : x <= y
               IN /\ scan' = [scan EXCEPT ![t] = [hist EXCEPT !.cursor = k, !.acc = Append(@, k)]]
                  /\ UNCHANGED <<pc, ret>>
          ELSE /\ scan' = [scan EXCEPT ![t] = hist]
               /\ Return(t, AtmStrikeResult(Yielded(scan[t].acc), arg[t].key))
    /\ UNCHANGED <<arg, underlyings, uBooks, eBooks, sBooks, placed, overflowChecks>>

\* Iterator::next inside min_by_key: the iterator moves to the first entry now in
\* the map whose key is above the last key it yielded; when there is none,
\* min_by_key returns the best of the keys yielded, or None, which ok_or_else
\* turns into NoDataAvailable.
AtmStrikeNext(t) ==
    /\ pc[t] = "scan" /\ arg[t].op = "atm_strike"
    /\ LET K == KeySet(eBooks[arg[t].mgr].strikes)
           rest == {x \in K : x > scan[t].cursor}
           hist == [scan[t] EXCEPT !.always = @ \cap K, !.ever = @ \cup K]
       IN IF rest # {}
          THEN LET k == CHOOSE x \in rest : \A y \in rest : x <= y
               IN /\ scan' = [scan EXCEPT ![t] = [hist EXCEPT !.cursor = k, !.acc = Append(@, k)]]
                  /\ UNCHANGED <<pc, ret>>
          ELSE /\ scan' = [scan EXCEPT ![t] = hist]
               /\ Return(t, AtmStrikeResult(Yielded(scan[t].acc), arg[t].key))
    /\ UNCHANGED <<arg, underlyings, uBooks, eBooks, sBooks, placed, overflowChecks>>

NextAtmRace ==
    \/ StrikeManagerGetOrCreate(Mutator, RaceStrikes)
    \/ GetOrCreateInsert(Mutator)
    \/ StrikeManagerRemove(Mutator, RaceStrikes)
    \/ \E e \in DOMAIN eBooks, spot \in Spots : AtmStrikeBegin(Caller, e, spot)
    \/ AtmStrikeNext(Caller)
    \/ \E t \in Threads : ScanContinue(t)

SpecAtmRace == InitLive /\ [][NextAtmRace]_vars

\* The step in which atm_strike returns NoDataAvailable is taken in a state of
\* the call in which the manager holds no strike.
C34_Step ==
    (/\ pc[Caller] = "scan" /\ arg[Caller].op = "atm_strike"
     /\ pc'[Caller] = "done"
     /\ ~ret'[Caller].ok) =>
        /\ ret'[Caller].err = "NoDataAvailable"
        /\ eBooks[arg[Caller].mgr].strikes = <<>>

\* An Ok(s) is a strike registered at some step of the call; NoDataAvailable is
\* returned only if no strike was registered at every step of the call.
C34_State ==
    Returned("atm_strike") =>
        /\ ret[Caller].ok => ret[Caller].val \in scan[Caller].ever
        /\ ~ret[Caller].ok => scan[Caller].always = {}
        /\ scan[Caller].always # {} => ret[Caller].ok

\* C34 (ATM under concurrent mutation): atm_strike(spot) running while another
\* thread calls get_or_create and remove on the same manager returns Ok(s) only
\* for a strike s registered at some moment of the call and NoDataAvailable only
\* if the manager held no strike at some moment of the call; a strike registered
\* from the beginning of the call to its end excludes NoDataAvailable.
C34_AtmUnderMutation == [][C34_Step /\ C34_State']_vars

\* atm_strike has returned a strike that is no longer registered: it was removed
\* during the call, after the iterator had yielded it, and another strike was
\* created during the call.
C34_Witness ==
    /\ Returned("atm_strike") /\ ret[Caller].ok
    /\ ret[Caller].val \notin KeySet(eBooks[arg[Caller].mgr].strikes)
    /\ KeySet(eBooks[arg[Caller].mgr].strikes) # {}
    /\ scan[Caller].always = {}

\* ------------------------------------------------------------------
\* Threads that create concurrently with pairwise different keys: each thread
\* calls get_or_create, at any level and on any manager, with keys of its own.
OwnKeys(t) == IF t = Caller THEN {1, 3} ELSE {2}

NextCommute ==
    \/ \E t \in Threads : UnderlyingManagerGetOrCreate(t, OwnKeys(t))
    \/ \E t \in Threads : ExpirationManagerGetOrCreate(t, OwnKeys(t))
    \/ \E t \in Threads : StrikeManagerGetOrCreate(t, OwnKeys(t))
    \/ \E t \in Threads : GetOrCreateInsert(t)
    \/ \E t \in Threads : Continue(t)

SpecCommute == Init /\ [][NextCommute]_vars

\* The orders in which the calls with the keys S can be made one after the other.
Orderings(S) ==
    {q \in [1 .. Cardinality(S) -> S] : \A i, j \in 1 .. Cardinality(S) : q[i] = q[j] => i = j}

\* The map after get_or_create was called with the keys of q one after the
\* other on an empty manager: a lookup, and an insert when the key is absent.
RECURSIVE SequentialCreate(_)
SequentialCreate(q) ==
    IF Len(q) = 0 THEN <<>>
    ELSE LET m == SequentialCreate(SubSeq(q, 1, Len(q) - 1))
             k == q[Len(q)]
         IN IF SkipGet(m, k) # Nil THEN m ELSE SkipInsert(m, k, Len(m) + 1)

\* The keys with which get_or_create of manager mgr has constructed an instance.
CreatedKeys(lvl, mgr) ==
    {KeyOfObject(lvl, id) : id \in {x \in DOMAIN HeapOf(lvl) : HeapOf(lvl)[x].owner = mgr}}

\* C35 (creation of distinct keys commutes): when threads call get_or_create
\* concurrently with pairwise different keys on the same manager, every caller
\* that has returned holds the instance registered under its key, every key
\* created is registered, and the key set, len() and the sorted enumeration of
\* the manager are those of the calls made one after the other in any order.
C35_CreationCommutes ==
    /\ \A t \in Threads :
           HoldsHandle(t) =>
               /\ SkipGet(MapOf(arg[t].lvl, arg[t].mgr), arg[t].key) = ret[t].val
               /\ HandleKey(t) = arg[t].key /\ HandleOwner(t) = arg[t].mgr
    /\ \A lvl \in Levels : \A mgr \in Managers(lvl) :
           /\ KeySet(MapOf(lvl, mgr)) = CreatedKeys(lvl, mgr)
           /\ \A q \in Orderings(CreatedKeys(lvl, mgr)) :
                  /\ SkipKeys(SequentialCreate(q)) = SkipKeys(MapOf(lvl, mgr))
                  /\ SkipLen(SequentialCreate(q)) = SkipLen(MapOf(lvl, mgr))

\* Both threads have returned from get_or_create on the same manager with
\* different keys, the greater key was inserted first, and the manager
\* enumerates three keys in ascending order.
C35_Witness ==
    /\ \A t \in Threads : HoldsHandle(t)
    /\ arg[Caller].lvl = arg[Mutator].lvl /\ arg[Caller].mgr = arg[Mutator].mgr
    /\ arg[Caller].key = 1 /\ arg[Mutator].key = 2
    /\ ret[Mutator].val < ret[Caller].val
    /\ SkipKeys(MapOf(arg[Caller].lvl, arg[Caller].mgr)) = <<1, 2, 3>>

\* ------------------------------------------------------------------
\* One caller creates, removes and creates again at the three levels, places
\* resting orders through every strike handle it has obtained, also those of
\* instances taken out of their map, and reads the totals and stats of every
\* manager.
NextFresh ==
    \/ UnderlyingManagerGetOrCreate(Caller, RaceSymbols)
    \/ ExpirationManagerGetOrCreate(Caller, RaceExpirations)
    \/ StrikeManagerGetOrCreate(Caller, RaceStrikes)
    \/ GetOrCreateInsert(Caller)
    \/ UnderlyingManagerRemove(Caller, RaceSymbols)
    \/ ExpirationManagerRemove(Caller, RaceExpirations)
    \/ StrikeManagerRemove(Caller, RaceStrikes)
    \/ \E s \in DOMAIN sBooks : \E ref \in LeafAccessors(s) :
           LeafAddLimitOrderAt(Caller, ref, "buy")
    \/ \E lvl \in {LvlUnderlying, LvlExpiration, LvlStrike} : \E m \in Managers(lvl) :
           TotalOrderCount(Caller, lvl, m)
    \/ \E lvl \in {LvlUnderlying, LvlExpiration, LvlStrike} : \E m \in Managers(lvl) :
           Stats(Caller, lvl, m)
    \/ Continue(Caller)

SpecFresh == Init /\ [][NextFresh]_vars

\* The strikes registered below manager mgr of level lvl: in its map, or in the
\* map of an entry registered below it.
RegisteredBelow(lvl, mgr) ==
    IF lvl = LvlStrike THEN RegisteredIn(eBooks[mgr].strikes)
    ELSE IF lvl = LvlExpiration
    THEN {x \in DOMAIN sBooks :
             \E e \in RegisteredIn(uBooks[mgr].expirations) : x \in RegisteredIn(eBooks[e].strikes)}
    ELSE ReachableStrikes

\* A get_or_create that finds no entry returns an instance that did not exist
\* before, has no orders and no children, and adds nothing to any total; an
\* order placed through a strike handle is added to the totals of exactly the
\* managers the strike is registered below.
C31_Step ==
    /\ (pc[Caller] = "insert" /\ pc'[Caller] = "done") =>
           /\ ret'[Caller].val \notin DOMAIN HeapOf(arg[Caller].lvl)
           /\ arg[Caller].lvl = LvlStrike =>
                  /\ sBooks'[ret'[Caller].val].call = EmptyLeaf
                  /\ sBooks'[ret'[Caller].val].put = EmptyLeaf
           /\ arg[Caller].lvl = LvlExpiration => eBooks'[ret'[Caller].val].strikes = <<>>
           /\ arg[Caller].lvl = LvlUnderlying => uBooks'[ret'[Caller].val].expirations = <<>>
           /\ GlobalStats'[4] = GlobalStats[4]
           /\ \A u \in DOMAIN uBooks : ExpirationTotalOrderCount(u)' = ExpirationTotalOrderCount(u)
           /\ \A e \in DOMAIN eBooks : StrikeTotalOrderCount(e)' = StrikeTotalOrderCount(e)
    /\ StartsCall("add_limit_order") =>
           LET s == arg'[Caller].mgr
               n(b) == IF b THEN 1 ELSE 0
           IN /\ GlobalStats'[4] = GlobalStats[4] + n(s \in RegisteredBelow(LvlUnderlying, 0))
              /\ \A u \in DOMAIN uBooks :
                     ExpirationTotalOrderCount(u)' =
                         ExpirationTotalOrderCount(u) + n(s \in RegisteredBelow(LvlExpiration, u))
              /\ \A e \in DOMAIN eBooks :
                     StrikeTotalOrderCount(e)' =
                         StrikeTotalOrderCount(e) + n(s \in RegisteredBelow(LvlStrike, e))

\* The total_order_count and the total_orders of the stats a manager returns are
\* the orders of the strikes registered below it: those of instances taken out
\* of a map are left out, those of the instances registered in their place count.
C31_State ==
    /\ Returned("total_order_count") =>
           ret[Caller].val =
               SumFn([x \in RegisteredBelow(arg[Caller].lvl, arg[Caller].mgr) |-> LeafOrders(x)])
    /\ Returned("stats") =>
           ret[Caller].list[Len(ret[Caller].list)] =
               SumFn([x \in RegisteredBelow(arg[Caller].lvl, arg[Caller].mgr) |-> LeafOrders(x)])

\* C31 (re-creation after removal is fresh): after remove(k), get_or_create(k)
\* returns an empty instance distinct from the removed one; orders resting in,
\* or later added through, a handle to the removed instance are in no
\* total_order_count() or stats of the manager and its ancestors, orders added
\* through the new handle are.
C31_FreshAfterRemoval == [][C31_Step /\ C31_State']_vars

\* A strike was removed with orders resting in it and created again; the removed
\* instance holds two orders, the new one holds one, and the total_order_count of
\* the root is one.
C31_Witness ==
    /\ Returned("total_order_count") /\ arg[Caller].lvl = LvlUnderlying
    /\ ret[Caller].val = 1
    /\ \E old, new \in DOMAIN sBooks :
           /\ old < new
           /\ sBooks[old].owner = sBooks[new].owner /\ sBooks[old].strike = sBooks[new].strike
           /\ sBooks[old].unlinked /\ LeafOrders(old) = 2
           /\ new \in ReachableStrikes /\ LeafOrders(new) = 1

\* ------------------------------------------------------------------
\* One caller works on one key at a time, either from the empty registry or in
\* the tree of SpecAgg, where expiration 1 exists under both underlyings and
\* strike 1 under both expirations: get_or_create, remove, clear and placement
\* of resting call bids.
InitFrame == Init \/ InitAgg

NextFrame ==
    \/ UnderlyingManagerGetOrCreate(Caller, {1, 2})
    \/ ExpirationManagerGetOrCreate(Caller, Expirations)
    \/ StrikeManagerGetOrCreate(Caller, Strikes)
    \/ GetOrCreateInsert(Caller)
    \/ UnderlyingManagerRemove(Caller, {1, 2})
    \/ ExpirationManagerRemove(Caller, Expirations)
    \/ StrikeManagerRemove(Caller, Strikes)
    \/ \E s \in DOMAIN sBooks : Clear(Caller, s)
    \/ \E s \in DOMAIN sBooks : LeafAddLimitOrderAt(Caller, CallLeaf(s), "buy")
    \/ Continue(Caller)

SpecFrame == InitFrame /\ [][NextFrame]_vars

\* The key a step of the caller works on: level, manager, key and the instance
\* registered under it before the step (Nil: none).  clear and add_limit_order
\* work on the key of the StrikeOrderBook they are called through.
FrameTarget ==
    LET c == arg'[Caller]
    IN IF c.op \in {"clear", "add_limit_order"}
       THEN [lvl |-> LvlStrike, mgr |-> sBooks[c.mgr].owner, key |-> sBooks[c.mgr].strike,
             inst |-> c.mgr]
       ELSE [lvl |-> c.lvl, mgr |-> c.mgr, key |-> c.key,
             inst |-> SkipGet(MapOf(c.lvl, c.mgr), c.key)]

\* The ExpirationOrderBooks and UnderlyingOrderBooks on the path from the root to
\* the key worked on, the keyed instance included: their totals contain its orders.
FramePathE ==
    IF FrameTarget.lvl = LvlStrike THEN {FrameTarget.mgr}
    ELSE IF FrameTarget.lvl = LvlExpiration THEN {FrameTarget.inst}
    ELSE {}

FramePathU ==
    IF FrameTarget.lvl = LvlStrike THEN {eBooks[FrameTarget.mgr].owner}
    ELSE IF FrameTarget.lvl = LvlExpiration THEN {FrameTarget.mgr}
    ELSE {FrameTarget.inst}

\* A step of get_or_create, remove, clear or add_limit_order on one key leaves
\* what every other key of every manager resolves to, the identity of every
\* instance, the leaves of every other StrikeOrderBook and the order totals of
\* every book off the path to the key as they were.
C32_Step ==
    (/\ pc'[Caller] # "idle"
     /\ arg'[Caller].op \in {"get_or_create", "remove", "clear", "add_limit_order"}) =>
        /\ \A lvl \in Levels : \A m \in Managers(lvl) : \A k \in Symbols :
               <<lvl, m, k>> # <<FrameTarget.lvl, FrameTarget.mgr, FrameTarget.key>> =>
                   SkipGet(MapOfNext(lvl, m), k) = SkipGet(MapOf(lvl, m), k)
        /\ \A u \in DOMAIN uBooks :
               /\ uBooks'[u].underlying = uBooks[u].underlying
               /\ uBooks'[u].owner = uBooks[u].owner
               /\ u \notin FramePathU =>
                      ExpirationTotalOrderCount(u)' = ExpirationTotalOrderCount(u)
        /\ \A e \in DOMAIN eBooks :
               /\ eBooks'[e].expiration = eBooks[e].expiration
               /\ eBooks'[e].underlying = eBooks[e].underlying
               /\ eBooks'[e].owner = eBooks[e].owner
               /\ e \notin FramePathE => StrikeTotalOrderCount(e)' = StrikeTotalOrderCount(e)
        /\ \A x \in DOMAIN sBooks :
               /\ sBooks'[x].strike = sBooks[x].strike
               /\ sBooks'[x].expiration = sBooks[x].expiration
               /\ sBooks'[x].underlying = sBooks[x].underlying
               /\ sBooks'[x].owner = sBooks[x].owner
               /\ (FrameTarget.lvl # LvlStrike \/ x # FrameTarget.inst) =>
                      /\ sBooks'[x].call = sBooks[x].call
                      /\ sBooks'[x].put = sBooks[x].put

\* Entries of two different managers never hold the same instance: the same
\* strike under two expirations, and the same expiration under two underlyings,
\* are two instances, each owned by the manager it is registered in.
C32_State ==
    \A lvl \in Levels : \A m1, m2 \in Managers(lvl) :
        \A i \in DOMAIN MapOf(lvl, m1) : \A j \in DOMAIN MapOf(lvl, m2) :
            /\ HeapOf(lvl)[MapOf(lvl, m1)[i].value].owner = m1
            /\ m1 # m2 => MapOf(lvl, m1)[i].value # MapOf(lvl, m2)[j].value

\* C32 (independence of keys and parents): the same strike under two different
\* expirations and the same expiration under two different underlyings resolve
\* to distinct instances, and get_or_create, remove, clear or order placement
\* under one key leaves the registration, the instance identity and the order
\* counts of every other key at every level unchanged, where the totals of the
\* books above the key are counts of the key's own path.
C32_KeysIndependent == [][C32_Step /\ C32_State']_vars

\* Strike 1 has just been removed from expiration 1 of underlying 1, while strike
\* 1 of expiration 1 of underlying 2 is registered with two resting orders and
\* expiration 1 is registered under both underlyings as two instances.
C32_Witness ==
    /\ Returned("remove") /\ ret[Caller].flag
    /\ arg[Caller].lvl = LvlStrike /\ arg[Caller].key = 1
    /\ Len(underlyings) = 2
    /\ \E e1, e2 \in DOMAIN eBooks :
           /\ e1 = arg[Caller].mgr /\ e2 # e1
           /\ eBooks[e1].expiration = eBooks[e2].expiration
           /\ eBooks[e1].owner # eBooks[e2].owner
           /\ SkipGet(uBooks[eBooks[e1].owner].expirations, 1) = e1
           /\ SkipGet(uBooks[eBooks[e2].owner].expirations, 1) = e2
           /\ SkipGet(eBooks[e1].strikes, 1) = Nil
           /\ SkipGet(eBooks[e2].strikes, 1) # Nil
           /\ LeafOrders(SkipGet(eBooks[e2].strikes, 1)) = 2

====
